---------------------------- MODULE Spec2Model ----------------------------
(***************************************************************************)
(* Timeline rendering and interaction engine of react-perf-studio:         *)
(* the Timeline host component (src/components/timeline/index.tsx, the     *)
(* variant taking onEventClick/currentTime/isPlaying) and the              *)
(* TimelineRenderer class (components/timeline/renderer).                  *)
(*                                                                         *)
(* JavaScript numbers are modelled as exact rationals <<n, d>> (d > 0,     *)
(* lowest terms); IEEE-754 rounding is not modelled, so an equality of     *)
(* two numbers below means equality of the real values computed.           *)
(***************************************************************************)
EXTENDS Integers, Sequences, FiniteSets, TLC

(***************************************************************************)
(* Exact rational arithmetic.                                              *)
(***************************************************************************)
Abs(i) == IF i < 0 THEN -i ELSE i

RECURSIVE Gcd(_, _)
Gcd(a, b) == IF b = 0 THEN a ELSE Gcd(b, a % b)

Norm(n, d) ==
  LET g  == Gcd(Abs(n), Abs(d))
      s  == IF d < 0 THEN -1 ELSE 1
  IN  <<s * (n \div g), s * (d \div g)>>

Q(i) == <<i, 1>>

Add(p, q) ==
  LET g == Gcd(p[2], q[2])
      l == (p[2] \div g) * q[2]
  IN  Norm(p[1] * (l \div p[2]) + q[1] * (l \div q[2]), l)

Neg(p) == <<-p[1], p[2]>>

Sub(p, q) == Add(p, Neg(q))

Mul(p, q) ==
  LET g1 == Gcd(q[2], Abs(p[1]))
      g2 == Gcd(p[2], Abs(q[1]))
  IN  Norm((p[1] \div g1) * (q[1] \div g2), (p[2] \div g2) * (q[2] \div g1))

\* division by a non-zero rational
Div(p, q) ==
  Mul(p, IF q[1] < 0 THEN <<-q[2], -q[1]>> ELSE <<q[2], q[1]>>)

Lt(p, q) == Sub(p, q)[1] < 0

Le(p, q) == Sub(p, q)[1] <= 0

Max(p, q) == IF Lt(p, q) THEN q ELSE p

Min(p, q) == IF Lt(q, p) THEN q ELSE p

AbsQ(p) == <<Abs(p[1]), p[2]>>

\* Math.floor, Math.ceil, Math.round (round half towards +infinity)
Floor(p) == p[1] \div p[2]

Ceil(p) == -((-p[1]) \div p[2])

Round(p) == (2 * p[1] + p[2]) \div (2 * p[2])

(***************************************************************************)
(* Constants of the renderer module.                                       *)
(***************************************************************************)
TRACK_HEIGHT == 40

TRACK_PADDING == 10

TIME_MARKERS_HEIGHT == 30

LEGEND_HEIGHT == 30

MIN_SCALE == <<1, 10>>

MAX_SCALE == <<100, 1>>

\* movement threshold of handleMouseUp
CLICK_THRESHOLD == 5

(***************************************************************************)
(* Bounds of the model.                                                    *)
(***************************************************************************)
\* number of wheel events in one behaviour
MaxWheel == 1

\* number of wheel, pointer-move and pointer-leave handlers that may run
\* before React renders the component
MaxPending == 1

\* largest offsetX a pan step may reach
MaxOffsetX == 11

\* number of wheel events that may be handled before React renders the
\* component, where a burst of wheel events is looked at
MaxBurst == 2

(***************************************************************************)
(* Inputs: pointer coordinates relative to the canvas, the page position   *)
(* of the canvas, container sizes, and the props passed by the parent.     *)
(***************************************************************************)
\* cursor columns of pointer events and of wheel events
PointerXs == {0, 11}

WheelXs == {11, 300}

\* cursor rows of pointer events: on the time ruler above the lanes, and
\* inside the lane of track 0
RulerYs == {10}

TrackYs == {70}

RectLefts == {8}

ContainerSizes == {[width |-> 1, height |-> 600], [width |-> 800, height |-> 600]}

\* playback cursors passed by the parent: paused at 0, playing at 100 ms
Playbacks ==
  {[currentTime |-> Q(0), isPlaying |-> FALSE],
   [currentTime |-> Q(100), isPlaying |-> TRUE]}

NoEvent == [id |-> "none", label |-> "", startTime |-> 0, duration |-> 0, eventTrackId |-> ""]

Ev(id, track, s, d) ==
  [id |-> id, label |-> id, startTime |-> s, duration |-> d, eventTrackId |-> track]

\* the tracks prop: a track holding a single event, and a track with
\* overlapping events
Tracks ==
  << [id |-> "render", label |-> "Renders", color |-> "#4f46e5",
      events |-> << Ev("r1", "render", 100, 20) >>],
     [id |-> "network", label |-> "Network", color |-> "#40c057",
      events |-> << Ev("n1", "network", 0, 200), Ev("n2", "network", 100, 0) >>] >>

(***************************************************************************)
(* Coordinate transform (renderer.timeToPixel / pixelToTime and the        *)
(* component's own pixelToTime).  t and p are rationals.                   *)
(***************************************************************************)
timeToPixel(t, v) ==
  Sub(Mul(Sub(t, Q(v.startTime)), v.scale), v.offsetX)

\* a conversion that forgets the pan offset
pixelToTimeNoOffset(p, v) == Add(Div(p, v.scale), Q(v.startTime))

pixelToTime(p, v) ==
  Add(Div(Add(p, v.offsetX), v.scale), Q(v.startTime))

(***************************************************************************)
(* Hit-testing.                                                            *)
(***************************************************************************)
trackIndexAt(y) ==
  Floor(Div(Sub(y, Q(TIME_MARKERS_HEIGHT + LEGEND_HEIGHT)),
            Q(TRACK_HEIGHT + TRACK_PADDING)))

\* a test that excludes the two ends of the event
eventContainsStrict(event, time) ==
  /\ Lt(Q(event.startTime), time)
  /\ Lt(time, Q(event.startTime + event.duration))

eventContains(event, time) ==
  /\ Le(Q(event.startTime), time)
  /\ Le(time, Q(event.startTime + event.duration))

\* a search that returns the last element satisfying the predicate
RECURSIVE findLastFrom(_, _, _)
findLastFrom(events, i, time) ==
  IF i > Len(events) THEN NoEvent
  ELSE IF findLastFrom(events, i + 1, time) # NoEvent
       THEN findLastFrom(events, i + 1, time)
  ELSE IF eventContains(events[i], time) THEN events[i]
  ELSE NoEvent

\* Array.prototype.find: the first element satisfying the predicate
RECURSIVE findFrom(_, _, _)
findFrom(events, i, time) ==
  IF i > Len(events) THEN NoEvent
  ELSE IF eventContains(events[i], time) THEN events[i]
  ELSE findFrom(events, i + 1, time)

\* a hit test that does not reject the ruler/legend band
findEventAtPositionNoBand(r, x, y) ==
  LET trackIndex == trackIndexAt(y)
  IN  IF trackIndex < 0 \/ trackIndex >= Len(r.tracks) THEN NoEvent
      ELSE findFrom(r.tracks[trackIndex + 1].events, 1, pixelToTime(x, r.viewport))

\* r is the renderer's state; x, y rationals.  NoEvent stands for null.
findEventAtPosition(r, x, y) ==
  IF Le(y, Q(TIME_MARKERS_HEIGHT + LEGEND_HEIGHT)) THEN NoEvent
  ELSE LET trackIndex == trackIndexAt(y)
       IN  IF trackIndex < 0 \/ trackIndex >= Len(r.tracks) THEN NoEvent
           ELSE findFrom(r.tracks[trackIndex + 1].events, 1, pixelToTime(x, r.viewport))

(***************************************************************************)
(* Draw pipeline.  A repaint is modelled by the sequence of drawing        *)
(* operations it issues on the 2D context, each with the context           *)
(* attributes that operation uses.  The context attributes outlive a       *)
(* repaint; c, c1, c2, ... below are the attributes after successive       *)
(* assignments.  Every draw function is given by two operators: one for    *)
(* the operations it issues and one for the attributes it leaves behind.   *)
(***************************************************************************)
\* attributes of a 2D context after the canvas is created or resized
DefaultCtx ==
  [fillStyle |-> "#000000", strokeStyle |-> "#000000", lineWidth |-> 1,
   font |-> "10px sans-serif", textAlign |-> "start"]

NoText == [s |-> "", v |-> Q(0)]

Op(layer, kind, a, text, fill, stroke, lineWidth, font, align) ==
  [layer |-> layer, kind |-> kind, a |-> a, text |-> text, fill |-> fill,
   stroke |-> stroke, lineWidth |-> lineWidth, font |-> font, align |-> align]

clearRect(c, layer, x, y, w, h) ==
  Op(layer, "clearRect", <<x, y, w, h>>, NoText, "-", "-", 0, "-", "-")

fillRect(c, layer, x, y, w, h) ==
  Op(layer, "fillRect", <<x, y, w, h>>, NoText, c.fillStyle, "-", 0, "-", "-")

\* beginPath / moveTo / lineTo / stroke
strokeLine(c, layer, x1, y1, x2, y2) ==
  Op(layer, "strokeLine", <<x1, y1, x2, y2>>, NoText, "-", c.strokeStyle,
     c.lineWidth, "-", "-")

fillText(c, layer, text, x, y) ==
  Op(layer, "fillText", <<x, y>>, text, c.fillStyle, "-", 0, c.font, c.textAlign)

\* the path of a rounded rectangle, filled
roundedRect(c, layer, x, y, w, h, radius) ==
  Op(layer, "fillRoundedRect", <<x, y, w, h, radius>>, NoText, c.fillStyle,
     "-", 0, "-", "-")

\* beginPath / roundRect / stroke
strokeRoundRect(c, layer, x, y, w, h, radius) ==
  Op(layer, "strokeRoundRect", <<x, y, w, h, radius>>, NoText, "-",
     c.strokeStyle, c.lineWidth, "-", "-")

\* beginPath / arc / fill
fillArc(c, layer, x, y, radius) ==
  Op(layer, "fillArc", <<x, y, radius>>, NoText, c.fillStyle, "-", 0, "-", "-")

(***************************************************************************)
(* Time grid: interval selection and the tick loop.                        *)
(***************************************************************************)
standardIntervals ==
  <<1, 2, 5, 10, 20, 25, 50, 100, 200, 250, 500, 1000, 2000, 5000, 10000>>

\* standardIntervals.reduce(...): the first interval closest to ideal
RECURSIVE closestStandard(_, _, _)
closestStandard(i, prev, ideal) ==
  IF i > Len(standardIntervals) THEN prev
  ELSE LET curr == standardIntervals[i]
       IN  closestStandard(i + 1,
             IF Lt(AbsQ(Sub(Q(curr), ideal)), AbsQ(Sub(Q(prev), ideal)))
             THEN curr ELSE prev,
             ideal)

\* an interval rounded down instead of up
timeIntervalOfRoundedDown(v, width) ==
  LET visibleRange  == Sub(pixelToTime(Q(width), v), pixelToTime(Q(0), v))
      idealInterval == Div(visibleRange, Q(8))
      floored       == Floor(idealInterval)
  IN  IF floored < 1 THEN 1 ELSE floored

timeIntervalOf(v, width) ==
  LET visibleTimeRange == Sub(pixelToTime(Q(width), v), pixelToTime(Q(0), v))
      idealInterval    == Div(visibleTimeRange, Q(8))
      ceiled           == Ceil(idealInterval)
      atLeastOne       == IF ceiled < 1 THEN 1 ELSE ceiled
  IN  IF Lt(Q(15), Div(visibleTimeRange, Q(atLeastOne)))
      THEN closestStandard(2, standardIntervals[1], idealInterval)
      ELSE atLeastOne

\* a loop that does not look at the usedPositions set
tickIsDrawnNoDedup(x, width, used) == ~ (x < 0 \/ x > width)

\* whether the loop draws a tick at column x, given the usedPositions set
tickIsDrawn(x, width, used) == ~ (x < 0 \/ x > width \/ x \in used)

\* the ticks drawn by the loop, as <<time, x>> pairs in drawing order
RECURSIVE tickLoop(_, _, _, _, _, _)
tickLoop(v, width, time, endTime, timeInterval, used) ==
  IF time > endTime THEN << >>
  ELSE LET x == Round(timeToPixel(Q(time), v))
       IN  IF tickIsDrawn(x, width, used)
           THEN << <<time, x>> >> \o
                tickLoop(v, width, time + timeInterval, endTime, timeInterval,
                         used \cup {x})
           ELSE tickLoop(v, width, time + timeInterval, endTime, timeInterval, used)

\* the first and last time the loop visits
tickStartTime(v, width) ==
  Floor(Div(pixelToTime(Q(0), v), Q(timeIntervalOf(v, width)))) * timeIntervalOf(v, width)

tickEndTime(v, width) ==
  Ceil(Div(pixelToTime(Q(width), v), Q(timeIntervalOf(v, width))))
    * timeIntervalOf(v, width)

drawnTicks(v, width) ==
  tickLoop(v, width, tickStartTime(v, width), tickEndTime(v, width),
           timeIntervalOf(v, width), {})

\* context attributes after an iteration of the tick loop that draws
tickCtx(c) == [c EXCEPT !.strokeStyle = "#3a3a3a"]

\* one iteration of the tick loop that draws
drawTick(c, tick, height) ==
  << strokeLine(tickCtx(c), "grid", Q(tick[2]), Q(0), Q(tick[2]), Q(height)),
     fillText(tickCtx(c), "grid", [s |-> "ms", v |-> Q(tick[1])], Q(tick[2]), Q(20)) >>

\* the operations of the tick loop from the i-th drawn tick on
RECURSIVE drawTicks(_, _, _, _)
drawTicks(c, ticks, i, height) ==
  IF i > Len(ticks) THEN << >>
  ELSE drawTick(c, ticks[i], height) \o drawTicks(tickCtx(c), ticks, i + 1, height)

\* whether the loop, run from `time` on with nothing drawn yet, draws a tick
RECURSIVE tickLoopDraws(_, _, _, _, _)
tickLoopDraws(v, width, time, endTime, timeInterval) ==
  /\ time <= endTime
  /\ \/ tickIsDrawn(Round(timeToPixel(Q(time), v)), width, {})
     \/ tickLoopDraws(v, width, time + timeInterval, endTime, timeInterval)

anyTickDrawn(v, width) ==
  tickLoopDraws(v, width, tickStartTime(v, width), tickEndTime(v, width),
                timeIntervalOf(v, width))

\* context attributes after the tick loop
ctxAfterTicks(c, v, width) == IF anyTickDrawn(v, width) THEN tickCtx(c) ELSE c

\* context attributes after one iteration of the forEach of drawLegend
legendItemCtx(c) ==
  [c EXCEPT !.fillStyle = "#fff", !.font = "12px Arial", !.textAlign = "left"]

\* one iteration of the forEach of drawLegend
drawLegendItem(c, track, index, startX) ==
  LET legendY == TIME_MARKERS_HEIGHT + 4
      itemX   == Add(startX, Q(index * (120 + 10)))
  IN  << fillRect([c EXCEPT !.fillStyle = track.color], "legend", itemX,
                  Q(legendY + 4), Q(12), Q(12)),
         fillText(legendItemCtx(c), "legend", [s |-> track.label, v |-> Q(0)],
                  Add(itemX, Q(20)), Q(legendY + 14)) >>

RECURSIVE drawLegendItems(_, _, _, _)
drawLegendItems(c, tracks, index, startX) ==
  IF index >= Len(tracks) THEN << >>
  ELSE drawLegendItem(c, tracks[index + 1], index, startX)
       \o drawLegendItems(legendItemCtx(c), tracks, index + 1, startX)

legendCtx(c) == [c EXCEPT !.fillStyle = "rgba(30, 30, 30, 0.7)"]

drawLegend(c, r, width) ==
  LET legendHeight     == 26
      legendY          == TIME_MARKERS_HEIGHT + 4
      totalLegendWidth == Len(r.tracks) * (120 + 10)
      startX == Max(Q(10), Div(Q(width - totalLegendWidth), Q(2)))
  IN  << fillRect(legendCtx(c), "legend", Sub(startX, Q(10)), Q(legendY - 4),
                  Q(totalLegendWidth + 20), Q(legendHeight)) >>
      \o drawLegendItems(legendCtx(c), r.tracks, 0, startX)

ctxAfterLegend(c, r) ==
  IF Len(r.tracks) = 0 THEN legendCtx(c) ELSE legendItemCtx(legendCtx(c))

\* context attributes when the tick loop starts
gridCtx(c) ==
  [c EXCEPT !.fillStyle = "#888", !.font = "10px Arial", !.textAlign = "center"]

\* a time grid that draws its legend before its ticks
drawMarkersLegendFirst(c, r, ticks, width, height) ==
  drawLegend(ctxAfterTicks(gridCtx(c), r.viewport, width), r, width)
  \o drawTicks(gridCtx(c), ticks, 1, height)

\* the operations of the tick loop and the legend, given the drawn ticks
drawMarkers(c, r, ticks, width, height) ==
  drawTicks(gridCtx(c), ticks, 1, height)
  \o drawLegend(ctxAfterTicks(gridCtx(c), r.viewport, width), r, width)

drawTimeGrid(c, r, width, height) ==
  << fillRect([c EXCEPT !.fillStyle = "#242424"], "grid", Q(0), Q(0), Q(width),
              Q(height)),
     fillRect([c EXCEPT !.fillStyle = "#2d2d2d"], "grid", Q(0), Q(0), Q(width),
              Q(TIME_MARKERS_HEIGHT)) >>
  \o drawMarkers(c, r, drawnTicks(r.viewport, width), width, height)

ctxAfterTimeGrid(c, r, width) ==
  ctxAfterLegend(ctxAfterTicks(gridCtx(c), r.viewport, width), r)

(***************************************************************************)
(* Track lanes and events.                                                 *)
(***************************************************************************)
\* top of the lane of track index i, as drawTracks and drawEvents compute it
trackY(i) == TIME_MARKERS_HEIGHT + 36 + i * (TRACK_HEIGHT + TRACK_PADDING)

trackCtx(c) == [c EXCEPT !.strokeStyle = "#333"]

drawTracks(c, r, width) ==
  [k \in 1..Len(r.tracks) |->
     strokeLine(trackCtx(c), "tracks", Q(0), Q(trackY(k - 1) + TRACK_HEIGHT),
                Q(width), Q(trackY(k - 1) + TRACK_HEIGHT))]

ctxAfterTracks(c, r) == IF Len(r.tracks) = 0 THEN c ELSE trackCtx(c)

eventX(event, v) == Round(timeToPixel(Q(event.startTime), v))

eventEndX(event, v) == Round(timeToPixel(Q(event.startTime + event.duration), v))

\* a width without the 1 pixel minimum
eventWidthNoMinimum(event, v) == eventEndX(event, v) - eventX(event, v)

eventWidth(event, v) ==
  LET w == eventEndX(event, v) - eventX(event, v) IN IF w < 1 THEN 1 ELSE w

eventIsDrawn(event, v, width) ==
  ~ (eventX(event, v) + eventWidth(event, v) < 0 \/ eventX(event, v) > width)

eventLabelCtx(c) ==
  [c EXCEPT !.fillStyle = "#fff", !.font = "10px Arial", !.textAlign = "left"]

\* context attributes after one iteration of the inner forEach of drawEvents
eventCtx(c, track, event, v, width) ==
  IF ~ eventIsDrawn(event, v, width) THEN c
  ELSE IF eventWidth(event, v) > 20 THEN eventLabelCtx(c)
  ELSE [c EXCEPT !.fillStyle = track.color]

\* one iteration of the inner forEach of drawEvents
drawEvent(c, track, trackIndex, event, v, width) ==
  LET ex == eventX(event, v)
      ew == eventWidth(event, v)
      ty == trackY(trackIndex)
      roundedRadius == Min(Q(4), Div(Q(ew), Q(2)))
      rect == roundedRect([c EXCEPT !.fillStyle = track.color], "events", Q(ex),
                          Q(ty + 4), Q(ew), Q(TRACK_HEIGHT - 8), roundedRadius)
      \* truncateText(label, maxWidth) depends on the font metrics of the
      \* context; the text drawn is determined by the pair
      label == fillText(eventLabelCtx(c), "events",
                        [s |-> event.label, v |-> Q(ew - 8)],
                        Q(ex + 4), Add(Q(ty + 3), Div(Q(TRACK_HEIGHT), Q(2))))
  IN  IF ~ eventIsDrawn(event, v, width) THEN << >>
      ELSE IF ew > 20 THEN <<rect, label>>
      ELSE <<rect>>

\* the events of all tracks in drawing order, as <<trackIndex, event>>
RECURSIVE eventsInOrder(_, _)
eventsInOrder(tracks, trackIndex) ==
  IF trackIndex >= Len(tracks) THEN << >>
  ELSE [k \in 1..Len(tracks[trackIndex + 1].events) |->
          <<trackIndex, tracks[trackIndex + 1].events[k]>>]
       \o eventsInOrder(tracks, trackIndex + 1)

\* context attributes before the i-th event of the list is visited
RECURSIVE ctxBeforeEvent(_, _, _, _, _)
ctxBeforeEvent(c, r, list, i, width) ==
  IF i = 1 THEN c
  ELSE eventCtx(ctxBeforeEvent(c, r, list, i - 1, width),
                r.tracks[list[i - 1][1] + 1], list[i - 1][2], r.viewport, width)

RECURSIVE drawEventsFrom(_, _, _, _, _)
drawEventsFrom(c, r, list, i, width) ==
  IF i > Len(list) THEN << >>
  ELSE drawEvent(c, r.tracks[list[i][1] + 1], list[i][1], list[i][2], r.viewport, width)
       \o drawEventsFrom(eventCtx(c, r.tracks[list[i][1] + 1], list[i][2],
                                  r.viewport, width),
                         r, list, i + 1, width)

drawEvents(c, r, width) == drawEventsFrom(c, r, eventsInOrder(r.tracks, 0), 1, width)

ctxAfterEvents(c, r, width) ==
  ctxBeforeEvent(c, r, eventsInOrder(r.tracks, 0),
                 Len(eventsInOrder(r.tracks, 0)) + 1, width)

(***************************************************************************)
(* Time cursor and tooltip.                                                *)
(***************************************************************************)
\* a test that lets a cursor right of the canvas through
indicatorIsDrawnPastRight(r, width) ==
  /\ ~ Lt(r.currentTime, Q(0))
  /\ ~ Lt(timeToPixel(r.currentTime, r.viewport), Q(0))

indicatorIsDrawn(r, width) ==
  /\ ~ Lt(r.currentTime, Q(0))
  /\ ~ Lt(timeToPixel(r.currentTime, r.viewport), Q(0))
  /\ ~ Lt(Q(width), timeToPixel(r.currentTime, r.viewport))

indicatorColor(r) == IF r.isPlaying THEN "#ff3333" ELSE "#ff8844"

\* context attributes when drawTimeIndicator strokes the line
indicatorLineCtx(c, r) ==
  [c EXCEPT !.strokeStyle = indicatorColor(r), !.lineWidth = 2]

\* context attributes when drawTimeIndicator fills the label background
indicatorLabelCtx(c, r) ==
  [indicatorLineCtx(c, r) EXCEPT !.fillStyle = "rgba(0, 0, 0, 0.8)",
                                 !.font = "11px Arial", !.textAlign = "center"]

drawTimeIndicator(c, r, width, height) ==
  LET indicatorX == timeToPixel(r.currentTime, r.viewport)
  IN  IF ~ indicatorIsDrawn(r, width) THEN << >>
      ELSE << strokeLine(indicatorLineCtx(c, r), "cursor", indicatorX,
                         Q(TIME_MARKERS_HEIGHT), indicatorX, Q(height)),
              fillArc([c EXCEPT !.fillStyle = indicatorColor(r)], "cursor", indicatorX,
                      Q(TIME_MARKERS_HEIGHT + 8), Q(4)),
              fillRect(indicatorLabelCtx(c, r), "cursor", Sub(indicatorX, Q(25)),
                       Q(TIME_MARKERS_HEIGHT + 15), Q(50), Q(16)),
              \* currentTime.toFixed(0): the time rounded to an integer
              fillText([indicatorLabelCtx(c, r) EXCEPT !.fillStyle = "#fff"], "cursor",
                       [s |-> "ms", v |-> Q(Round(r.currentTime))],
                       indicatorX, Q(TIME_MARKERS_HEIGHT + 26)) >>

ctxAfterTimeIndicator(c, r, width) ==
  IF ~ indicatorIsDrawn(r, width) THEN c
  ELSE [indicatorLabelCtx(c, r) EXCEPT !.fillStyle = "#fff"]

tooltipX(position, width) ==
  IF position.x + 10 + 200 > width THEN position.x - 200 - 10 ELSE position.x + 10

tooltipY(position, height) ==
  IF position.y + 10 + 90 > height THEN position.y - 90 - 10 ELSE position.y + 10

\* context attributes when drawTooltip strokes the border
tooltipBorderCtx(c) ==
  [c EXCEPT !.fillStyle = "rgba(30, 30, 30, 0.9)", !.strokeStyle = "#555",
            !.lineWidth = 1]

\* context attributes when drawTooltip writes the title
tooltipTitleCtx(c) ==
  [tooltipBorderCtx(c) EXCEPT !.fillStyle = "#fff", !.font = "bold 12px Arial",
                              !.textAlign = "left"]

ctxAfterTooltip(c) == [tooltipTitleCtx(c) EXCEPT !.font = "11px Arial"]

drawTooltip(c, event, position, width, height) ==
  LET tx == tooltipX(position, width)
      ty == tooltipY(position, height)
      padding == 8
  IN  << roundedRect(tooltipBorderCtx(c), "tooltip", Q(tx), Q(ty), Q(200), Q(90), Q(4)),
         strokeRoundRect(tooltipBorderCtx(c), "tooltip", Q(tx), Q(ty), Q(200), Q(90),
                         Q(4)),
         fillText(tooltipTitleCtx(c), "tooltip", [s |-> event.label, v |-> Q(0)],
                  Q(tx + padding), Q(ty + padding + 12)),
         fillText(ctxAfterTooltip(c), "tooltip", [s |-> "ID: " \o event.id, v |-> Q(0)],
                  Q(tx + padding), Q(ty + padding + 30)),
         fillText(ctxAfterTooltip(c), "tooltip",
                  [s |-> "Start: ms", v |-> Q(event.startTime)],
                  Q(tx + padding), Q(ty + padding + 45)),
         fillText(ctxAfterTooltip(c), "tooltip",
                  [s |-> "Duration: ms", v |-> Q(event.duration)],
                  Q(tx + padding), Q(ty + padding + 60)) >>

tooltipIsDrawn(r) == r.mouseState.isHovering /\ r.mouseState.hoverEvent # NoEvent

(***************************************************************************)
(* drawTimeline: the context attributes at the start of each layer, the    *)
(* operations issued, and the attributes left behind.                      *)
(***************************************************************************)
backgroundCtx(c) == [c EXCEPT !.fillStyle = "#1a1a1a"]

ctxBeforeTracks(r, cv, c) == ctxAfterTimeGrid(backgroundCtx(c), r, cv.width)

ctxBeforeEvents(r, cv, c) == ctxAfterTracks(ctxBeforeTracks(r, cv, c), r)

ctxBeforeTimeIndicator(r, cv, c) ==
  ctxAfterEvents(ctxBeforeEvents(r, cv, c), r, cv.width)

ctxBeforeTooltip(r, cv, c) ==
  ctxAfterTimeIndicator(ctxBeforeTimeIndicator(r, cv, c), r, cv.width)

\* the context attributes one drawTimeline() leaves behind
ctxAfterTimeline(r, cv, c) ==
  IF ~ r.hasCanvas \/ ~ r.hasCtx THEN c
  ELSE IF tooltipIsDrawn(r) THEN ctxAfterTooltip(ctxBeforeTooltip(r, cv, c))
  ELSE ctxBeforeTooltip(r, cv, c)

\* the layers of one repaint started with context attributes c
drawLayers(r, cv, c) ==
  << clearRect(c, "background", Q(0), Q(0), Q(cv.width), Q(cv.height)),
     fillRect(backgroundCtx(c), "background", Q(0), Q(0), Q(cv.width), Q(cv.height)) >>
  \o drawTimeGrid(backgroundCtx(c), r, cv.width, cv.height)
  \o drawTracks(ctxBeforeTracks(r, cv, c), r, cv.width)
  \o drawEvents(ctxBeforeEvents(r, cv, c), r, cv.width)
  \o drawTimeIndicator(ctxBeforeTimeIndicator(r, cv, c), r, cv.width, cv.height)
  \o (IF tooltipIsDrawn(r)
      THEN drawTooltip(ctxBeforeTooltip(r, cv, c), r.mouseState.hoverEvent,
                       r.mouseState.hoverPosition, cv.width, cv.height)
      ELSE << >>)

\* a drawTimeline() that does not look for its canvas and context
drawTimelineUnguarded(r, cv, c) == drawLayers(r, cv, c)

\* the operations of one drawTimeline() started with context attributes c
drawTimeline(r, cv, c) ==
  IF ~ r.hasCanvas \/ ~ r.hasCtx THEN << >> ELSE drawLayers(r, cv, c)

(***************************************************************************)
(* The Timeline component and its renderer as a state machine.             *)
(*                                                                         *)
(* viewport, mouseState, clickedEvent: the component's React state, with   *)
(*   every queued updater applied.                                         *)
(* cl: the viewport and mouseState captured by the closures of the last    *)
(*   render (what `viewport` and `mouseState` denote inside a handler).    *)
(* pending: number of handlers that set state since the last render.       *)
(* props: what the parent passes.   renderer: the TimelineRenderer fields. *)
(* canvas: size of the canvas.   ctx: attributes of its 2D context.        *)
(* before: the context attributes the last drawTimeline() started with.    *)
(* pointer: where the button was last pressed on the canvas.               *)
(* last: the last operation, and whether it called renderer.handleClick.   *)
(* wheels: number of wheel events so far.   rectLeft: page position of     *)
(*   the canvas.                                                           *)
(* session: the profiling session of the page hosting the Timeline         *)
(*   (ProfilerTimelineEventTracks / ProfilerTimeline of app/test.tsx).     *)
(* listeners: whether the Timeline is mounted, and how many of its         *)
(*   handlers are registered on the window ("resize") and on the canvas    *)
(*   ("wheel").                                                            *)
(***************************************************************************)
VARIABLES viewport, mouseState, clickedEvent, cl, pending, props, renderer,
          canvas, ctx, before, pointer, last, wheels, rectLeft, session,
          listeners

vars == <<viewport, mouseState, clickedEvent, cl, pending, props, renderer,
          canvas, ctx, before, pointer, last, wheels, rectLeft, session,
          listeners>>

\* initEventTracks(): the three tracks of a session, each without events
initEventTracks ==
  [track \in {"network-resource", "user-input", "render"} |-> << >>]

\* useState / useRef initial values of ProfilerTimelineEventTracks and
\* ProfilerTimeline.  eventTracks and eventTracksRef map a track id to the
\* track's events; baselineTimestampRef is {} for null; now is the clock
\* (performance.now() and Date.now(), in ms); instrumented tells whether
\* the commit hook has been installed.
InitialSession ==
  [profilingSessionStatus |-> "init", eventTracks |-> initEventTracks,
   eventTracksRef |-> initEventTracks, baselineTimestampRef |-> {},
   now |-> 0, instrumented |-> FALSE]

\* after the effects of the first render: one resize listener on the
\* window, one wheel listener on the canvas
InitialListeners == [mounted |-> TRUE, resize |-> 1, wheel |-> 1]

\* a wheel effect that registers its listener without its cleanup having
\* removed the previous one
wheelEffectNoCleanup(l, changed) ==
  IF changed THEN [l EXCEPT !.wheel = @ + 1] ELSE l

\* the wheel effect, deps [viewport]: when the viewport object has changed,
\* the cleanup of the previous run removes its listener and the effect
\* registers the new handleWheel
wheelEffect(l, changed) ==
  IF changed THEN [l EXCEPT !.wheel = (@ - 1) + 1] ELSE l

\* useState initial values of the component
InitialViewport ==
  [offsetX |-> Q(0), scale |-> <<1, 10>>, startTime |-> 0, endTime |-> 800]

InitialMouseState ==
  [isDragging |-> FALSE, lastX |-> 0, isHovering |-> FALSE,
   hoverEvent |-> NoEvent, hoverPosition |-> [x |-> 0, y |-> 0]]

\* field initialisers of the TimelineRenderer class; hasCanvas, hasCtx and
\* onEventClick tell whether the field is non-null
RendererFields ==
  [hasCanvas |-> FALSE, hasCtx |-> FALSE, tracks |-> << >>,
   viewport |-> [offsetX |-> Q(0), scale |-> Q(1), startTime |-> 0, endTime |-> 800],
   mouseState |-> [isDragging |-> FALSE, lastX |-> 0, isHovering |-> FALSE,
                   hoverEvent |-> NoEvent, hoverPosition |-> [x |-> 0, y |-> 0]],
   onEventClick |-> FALSE, currentTime |-> Q(0), isPlaying |-> FALSE]

\* setCanvas(canvas): element tells whether canvas is an element, context
\* whether its getContext("2d") yields a context
setCanvas(r, element, context) ==
  [r EXCEPT !.hasCanvas = element, !.hasCtx = element /\ context]

setTracks(r, tracks) == [r EXCEPT !.tracks = tracks]

setViewport(r, vp) == [r EXCEPT !.viewport = vp]

setMouseState(r, ms) == [r EXCEPT !.mouseState = ms]

setOnEventClick(r) == [r EXCEPT !.onEventClick = TRUE]

setCurrentTime(r, time, isPlaying) ==
  [r EXCEPT !.currentTime = time, !.isPlaying = isPlaying]

\* new TimelineRenderer(canvasRef.current) followed by setOnEventClick, as
\* the component's first effect creates it
NewRenderer == setOnEventClick(setCanvas(RendererFields, TRUE, TRUE))

\* the setters called by the "update renderer" effect
SyncedRenderer(vp, ms, pr) ==
  setCurrentTime(setMouseState(setViewport(setTracks(NewRenderer, pr.tracks), vp), ms),
                 pr.currentTime, pr.isPlaying)

\* the drawing operations issued by the last drawTimeline()
paintOps == drawTimeline(renderer, canvas, before)

NoOp == [op |-> "mount", click |-> FALSE, delivered |-> << >>, at |-> <<0, 0>>]

\* The state after mounting with viewport vp.  The effects run in order:
\* the renderer is created; the resize effect sizes the canvas (which
\* resets the context) and repaints the still-default renderer; the update
\* effect pushes state and props and repaints.
Mounted(vp) ==
  /\ viewport = vp
  /\ mouseState = InitialMouseState
  /\ clickedEvent = NoEvent
  /\ cl = [viewport |-> vp, mouseState |-> InitialMouseState]
  /\ pending = 0
  /\ rectLeft \in RectLefts
  /\ canvas \in ContainerSizes
  /\ props = [tracks |-> Tracks, currentTime |-> Q(0), isPlaying |-> FALSE]
  /\ renderer = SyncedRenderer(vp, InitialMouseState, props)
  /\ before = ctxAfterTimeline(NewRenderer, canvas, DefaultCtx)
  /\ ctx = ctxAfterTimeline(renderer, canvas, before)
  /\ pointer = 0
  /\ last = NoOp
  /\ wheels = 0
  /\ session = InitialSession
  /\ listeners = InitialListeners

Init == Mounted(InitialViewport)

\* mounted in a container 800 pixels wide
InitWide == Init /\ canvas.width = 800

\* renderer.drawTimeline() on the renderer state r and canvas size cv,
\* the context holding the attributes c
Repaint(r, cv, c) ==
  /\ before' = c
  /\ ctx' = ctxAfterTimeline(r, cv, c)

\* A render of the component followed by its effects: the handlers are
\* re-created over the state vp/ms, the wheel listener is re-registered,
\* and the update effect pushes state and props into the renderer and
\* repaints.
Commit(vp, ms, pr) ==
  /\ cl' = [viewport |-> vp, mouseState |-> ms]
  /\ renderer' = SyncedRenderer(vp, ms, pr)
  /\ Repaint(renderer', canvas, ctx)
  /\ pending' = 0
  /\ listeners' = wheelEffect(listeners, vp # cl.viewport)

\* a new scale that is not clamped
zoomedScaleUnclamped(scale, deltaY) ==
  Mul(scale, IF deltaY > 0 THEN <<9, 10>> ELSE <<11, 10>>)

\* the new scale computed by handleWheel from the scale the handler sees
zoomedScale(scale, deltaY) ==
  LET zoomFactor == IF deltaY > 0 THEN <<9, 10>> ELSE <<11, 10>>
  IN  Max(MIN_SCALE, Min(MAX_SCALE, Mul(scale, zoomFactor)))

\* newOffsetX computed without subtracting the cursor column
zoomedOffsetXNotAnchored(seen, cursorX, newScale) ==
  Mul(Sub(pixelToTime(Q(cursorX), seen), Q(seen.startTime)), newScale)

\* newOffsetX of handleWheel, before the clamp; seen is the viewport the
\* handler sees
zoomedOffsetX(seen, cursorX, newScale) ==
  LET timeAtCursor == pixelToTime(Q(cursorX), seen)
  IN  Sub(Mul(Sub(timeAtCursor, Q(seen.startTime)), newScale), Q(cursorX))

\* the updater passed to setViewport by handleWheel
wheelViewport(prev, seen, cursorX, deltaY) ==
  LET newScale == zoomedScale(seen.scale, deltaY)
  IN  [prev EXCEPT !.scale = newScale,
                   !.offsetX = Max(Q(0), zoomedOffsetX(seen, cursorX, newScale))]

\* a pan that stores the offset without clamping it
panViewportUnclamped(prev, deltaX) ==
  [prev EXCEPT !.offsetX = Sub(prev.offsetX, Q(deltaX))]

\* the updater passed to setViewport by handleMouseMove while dragging
panViewport(prev, deltaX) ==
  [prev EXCEPT !.offsetX = Max(Q(0), Sub(prev.offsetX, Q(deltaX)))]

\* the body of handleWheel: cl.viewport is the viewport of the render that
\* registered the listener
wheelEvent(clientX, deltaY) ==
  /\ wheels' = wheels + 1
  /\ pending' = pending + 1
  /\ viewport' = wheelViewport(viewport, cl.viewport, clientX - rectLeft, deltaY)
  /\ last' = [NoOp EXCEPT !.op = "wheel"]
  /\ UNCHANGED <<mouseState, clickedEvent, cl, props, renderer, canvas, ctx,
                 before, pointer, rectLeft, session,
                 listeners>>

handleWheel(clientX, deltaY) ==
  /\ wheels < MaxWheel
  /\ pending < MaxPending
  /\ wheelEvent(clientX, deltaY)

handleMouseDown(clientX) ==
  /\ mouseState' = [mouseState EXCEPT !.isDragging = TRUE, !.lastX = clientX]
  /\ pointer' = clientX
  /\ last' = [NoOp EXCEPT !.op = "mousedown"]
  /\ Commit(viewport, mouseState', props)
  /\ UNCHANGED <<viewport, clickedEvent, props, canvas, wheels, rectLeft, session>>

\* wasQuickClick of handleMouseUp; ms is the mouseState the handler sees
wasQuickClick(ms, clientX) ==
  \/ ~ ms.isDragging
  \/ Abs(clientX - ms.lastX) < CLICK_THRESHOLD

\* a handleClick that invokes the callback for a miss as well
handleClickAlways(r, x, y) ==
  IF r.onEventClick THEN << findEventAtPosition(r, Q(x), Q(y)) >> ELSE << >>

\* renderer.handleClick(x, y): the arguments of the invocations of the
\* registered callback, in order
handleClick(r, x, y) ==
  LET event == findEventAtPosition(r, Q(x), Q(y))
  IN  IF event # NoEvent /\ r.onEventClick THEN << event >> ELSE << >>

\* the callback the component registers calls setClickedEvent(event) and
\* the onEventClick prop
handleMouseUp(clientX, clientY) ==
  LET click == wasQuickClick(cl.mouseState, clientX)
      delivered == IF click THEN handleClick(renderer, clientX - rectLeft, clientY)
                   ELSE << >>
  IN  /\ mouseState' = [mouseState EXCEPT !.isDragging = FALSE]
      /\ clickedEvent' = IF delivered # << >> THEN delivered[Len(delivered)]
                         ELSE clickedEvent
      /\ last' = [NoOp EXCEPT !.op = "mouseup", !.click = click,
                              !.delivered = delivered]
      /\ Commit(viewport, mouseState', props)
      /\ UNCHANGED <<viewport, props, canvas, pointer, wheels, rectLeft, session>>

\* a pointer-move that updates the hover state while dragging as well
handleMouseMoveHoversInDrag(clientX, clientY) ==
  LET mouseX == clientX - rectLeft
      mouseY == clientY
      deltaX == clientX - cl.mouseState.lastX
      event  == findEventAtPosition(renderer, Q(mouseX), Q(mouseY))
  IN  /\ pending < MaxPending
      /\ pending' = pending + 1
      /\ IF cl.mouseState.isDragging
         THEN /\ Le(panViewport(viewport, deltaX).offsetX, Q(MaxOffsetX))
              /\ viewport' = panViewport(viewport, deltaX)
              /\ mouseState' = [mouseState EXCEPT
                                  !.lastX = clientX,
                                  !.isHovering = (event # NoEvent),
                                  !.hoverEvent = event,
                                  !.hoverPosition = [x |-> mouseX, y |-> mouseY]]
         ELSE /\ viewport' = viewport
              /\ mouseState' = [mouseState EXCEPT
                                  !.isHovering = (event # NoEvent),
                                  !.hoverEvent = event,
                                  !.hoverPosition = [x |-> mouseX, y |-> mouseY]]
      /\ last' = [NoOp EXCEPT !.op = "mousemove"]
      /\ UNCHANGED <<clickedEvent, cl, props, renderer, canvas, ctx, before,
                     pointer, wheels, rectLeft, session,
                 listeners>>

handleMouseMove(clientX, clientY) ==
  LET mouseX == clientX - rectLeft
      mouseY == clientY
      deltaX == clientX - cl.mouseState.lastX
      event  == findEventAtPosition(renderer, Q(mouseX), Q(mouseY))
  IN  /\ pending < MaxPending
      /\ pending' = pending + 1
      /\ IF cl.mouseState.isDragging
         THEN /\ Le(panViewport(viewport, deltaX).offsetX, Q(MaxOffsetX))
              /\ viewport' = panViewport(viewport, deltaX)
              /\ mouseState' = [mouseState EXCEPT !.lastX = clientX]
         ELSE /\ viewport' = viewport
              /\ mouseState' = [mouseState EXCEPT
                                  !.isHovering = (event # NoEvent),
                                  !.hoverEvent = event,
                                  !.hoverPosition = [x |-> mouseX, y |-> mouseY]]
      /\ last' = [NoOp EXCEPT !.op = "mousemove"]
      /\ UNCHANGED <<clickedEvent, cl, props, renderer, canvas, ctx, before,
                     pointer, wheels, rectLeft, session,
                 listeners>>

\* a pointer-leave that ends the drag and keeps the hover
handleMouseLeaveKeepsHover ==
  /\ pending < MaxPending
  /\ pending' = pending + 1
  /\ mouseState' = [mouseState EXCEPT !.isDragging = FALSE]
  /\ last' = [NoOp EXCEPT !.op = "mouseleave"]
  /\ UNCHANGED <<viewport, clickedEvent, cl, props, renderer, canvas, ctx,
                 before, pointer, wheels, rectLeft, session,
                 listeners>>

\* a pointer-leave that keeps the hovered event
handleMouseLeaveKeepsEvent ==
  /\ pending < MaxPending
  /\ pending' = pending + 1
  /\ mouseState' = [mouseState EXCEPT !.isDragging = FALSE, !.isHovering = FALSE]
  /\ last' = [NoOp EXCEPT !.op = "mouseleave"]
  /\ UNCHANGED <<viewport, clickedEvent, cl, props, renderer, canvas, ctx,
                 before, pointer, wheels, rectLeft, session, listeners>>

handleMouseLeave ==
  /\ pending < MaxPending
  /\ pending' = pending + 1
  /\ mouseState' = [mouseState EXCEPT !.isDragging = FALSE, !.isHovering = FALSE,
                                      !.hoverEvent = NoEvent]
  /\ last' = [NoOp EXCEPT !.op = "mouseleave"]
  /\ UNCHANGED <<viewport, clickedEvent, cl, props, renderer, canvas, ctx,
                 before, pointer, wheels, rectLeft, session,
                 listeners>>

\* a reset to the scale the component is mounted with
ResetViewportToMountScale ==
  [offsetX |-> Q(0), scale |-> <<1, 10>>, startTime |-> 0, endTime |-> 800]

\* the value resetView passes to setViewport
ResetViewport ==
  [offsetX |-> Q(0), scale |-> Q(1), startTime |-> 0, endTime |-> 800]

resetView ==
  /\ viewport' = ResetViewport
  /\ last' = [NoOp EXCEPT !.op = "resetView"]
  /\ Commit(viewport', mouseState, props)
  /\ UNCHANGED <<mouseState, clickedEvent, props, canvas, pointer, wheels, rectLeft, session>>

\* React renders the component after updates made by wheel, pointer-move
\* and pointer-leave handlers
Render ==
  /\ pending > 0
  /\ last' = [NoOp EXCEPT !.op = "render"]
  /\ Commit(viewport, mouseState, props)
  /\ UNCHANGED <<viewport, mouseState, clickedEvent, props, canvas, pointer,
                 wheels, rectLeft, session>>

\* window resize: the canvas takes the container's size, which resets the
\* context, and the renderer repaints what it holds
handleResize(size) ==
  /\ canvas' = size
  /\ Repaint(renderer, size, DefaultCtx)
  /\ last' = [NoOp EXCEPT !.op = "resize"]
  /\ UNCHANGED <<viewport, mouseState, clickedEvent, cl, pending, props, renderer,
                 pointer, wheels, rectLeft, session,
                 listeners>>

\* the parent renders the Timeline with a new playback cursor
ParentRender(playback) ==
  /\ props' = [props EXCEPT !.currentTime = playback.currentTime,
                            !.isPlaying = playback.isPlaying]
  /\ props' # props
  /\ last' = [NoOp EXCEPT !.op = "props"]
  /\ Commit(viewport, mouseState, props')
  /\ UNCHANGED <<viewport, mouseState, clickedEvent, canvas, pointer, wheels,
                 rectLeft, session>>

\* a parent render that mounts the Timeline anew
ParentPropsRemounts(newProps) ==
  /\ props' = newProps
  /\ props' # props
  /\ viewport' = InitialViewport
  /\ last' = [NoOp EXCEPT !.op = "props"]
  /\ Commit(viewport', mouseState, props')
  /\ UNCHANGED <<mouseState, clickedEvent, canvas, pointer, wheels,
                 rectLeft, session>>

\* the parent renders the Timeline with another tracks array and another
\* playback cursor
ParentProps(newProps) ==
  /\ props' = newProps
  /\ props' # props
  /\ last' = [NoOp EXCEPT !.op = "props"]
  /\ Commit(viewport, mouseState, props')
  /\ UNCHANGED <<viewport, mouseState, clickedEvent, canvas, pointer, wheels,
                 rectLeft, session>>

\* every operation, with the pointer on the ruler or in a lane
Next ==
  \/ \E x \in WheelXs, deltaY \in {-1, 1} : handleWheel(x + rectLeft, deltaY)
  \/ \E x \in PointerXs : handleMouseDown(x + rectLeft)
  \/ \E x \in PointerXs, y \in RulerYs \cup TrackYs : handleMouseUp(x + rectLeft, y)
  \/ \E x \in PointerXs, y \in RulerYs \cup TrackYs : handleMouseMove(x + rectLeft, y)
  \/ handleMouseLeave
  \/ resetView
  \/ Render
  \/ \E size \in ContainerSizes : handleResize(size)
  \/ \E playback \in Playbacks : ParentRender(playback)

Spec == Init /\ [][Next]_vars

\* zooming, panning and resetting with the pointer on the time ruler, on a
\* canvas 800 pixels wide
NextZoom ==
  \/ \E x \in WheelXs, deltaY \in {-1, 1} : handleWheel(x + rectLeft, deltaY)
  \/ \E x \in PointerXs : handleMouseDown(x + rectLeft)
  \/ \E x \in PointerXs, y \in RulerYs : handleMouseUp(x + rectLeft, y)
  \/ \E x \in PointerXs, y \in RulerYs : handleMouseMove(x + rectLeft, y)
  \/ handleMouseLeave
  \/ resetView
  \/ Render

SpecZoom == InitWide /\ [][NextZoom]_vars

\* pressing, dragging, hovering and releasing with the pointer in the lane
\* of track 0, on a canvas 800 pixels wide
NextClick ==
  \/ \E x \in PointerXs : handleMouseDown(x + rectLeft)
  \/ \E x \in PointerXs, y \in TrackYs : handleMouseUp(x + rectLeft, y)
  \/ \E x \in PointerXs, y \in TrackYs : handleMouseMove(x + rectLeft, y)
  \/ handleMouseLeave
  \/ Render

SpecClick == InitWide /\ [][NextClick]_vars

\* what makes the renderer repaint without a button pressed: resizes,
\* playback, hovering and zooming
NextPaint ==
  \/ \E size \in ContainerSizes : handleResize(size)
  \/ \E playback \in Playbacks : ParentRender(playback)
  \/ \E x \in WheelXs, deltaY \in {-1, 1} : handleWheel(x + rectLeft, deltaY)
  \/ \E x \in PointerXs, y \in TrackYs : handleMouseMove(x + rectLeft, y)
  \/ handleMouseLeave
  \/ Render

SpecPaint == Init /\ [][NextPaint]_vars

\* The viewport after 73 wheel events with deltaY < 0 at cursor column 0,
\* each one rendered: the offset stays 0 (the time under column 0 is 0) and
\* the scale 0.1 * 1.1^73 > 100 has been clamped to MAX_SCALE.
ZoomedInViewport ==
  [offsetX |-> Q(0), scale |-> MAX_SCALE, startTime |-> 0, endTime |-> 800]

\* mounted in a container 800 pixels wide, or zoomed in from there as far
\* as the scale goes
InitScale ==
  /\ \/ Mounted(InitialViewport)
     \/ Mounted(ZoomedInViewport)
  /\ canvas.width = 800

\* zooming, panning and resetting at both ends of the scale range
SpecScale == InitScale /\ [][NextZoom]_vars

\* props passed by the parent: the props at mount, and the first track
\* alone with the playback at 100 ms
PropsPassed ==
  {[tracks |-> Tracks, currentTime |-> Q(0), isPlaying |-> FALSE],
   [tracks |-> << Tracks[1] >>, currentTime |-> Q(100), isPlaying |-> TRUE]}

\* every handler of the component with the pointer on the ruler, clicks in
\* the lane of track 0, and parent renders
NextFrame ==
  \/ \E x \in PointerXs, deltaY \in {-1, 1} : handleWheel(x + rectLeft, deltaY)
  \/ \E x \in PointerXs : handleMouseDown(x + rectLeft)
  \/ \E x \in PointerXs, y \in RulerYs : handleMouseUp(x + rectLeft, y)
  \/ \E x \in PointerXs, y \in RulerYs : handleMouseMove(x + rectLeft, y)
  \/ handleMouseLeave
  \/ resetView
  \/ Render
  \/ \E newProps \in PropsPassed : ParentProps(newProps)

SpecFrame == InitWide /\ [][NextFrame]_vars

\* playback cursors passed by the parent, with one before the start of the
\* recording
CursorPlaybacks == Playbacks \cup {[currentTime |-> Q(-1), isPlaying |-> TRUE]}

\* playback, resizing and zooming with the pointer on the ruler
NextCursor ==
  \/ \E playback \in CursorPlaybacks : ParentRender(playback)
  \/ \E size \in ContainerSizes : handleResize(size)
  \/ \E x \in WheelXs, deltaY \in {-1, 1} : handleWheel(x + rectLeft, deltaY)
  \/ \E x \in PointerXs, y \in RulerYs : handleMouseMove(x + rectLeft, y)
  \/ handleMouseLeave
  \/ Render

SpecCursor == Init /\ [][NextCursor]_vars

(***************************************************************************)
(* The TimelineRenderer class used on its own: a client constructs it and  *)
(* calls its public methods in any order.  The component's state stays as  *)
(* it is created; `last` records the method called, the coordinates passed *)
(* to handleClick and the invocations of the registered callback.          *)
(***************************************************************************)
\* arguments of the setters
RendererTracks == {<< >>, Tracks}

RendererViewports == {InitialViewport, ResetViewport}

HoveringMouseState ==
  [InitialMouseState EXCEPT !.isHovering = TRUE, !.hoverEvent = Tracks[1].events[1],
                            !.hoverPosition = [x |-> 11, y |-> 70]]

RendererMouseStates == {InitialMouseState, HoveringMouseState}

\* coordinates passed to handleClick and findEventAtPosition: rows in the
\* ruler/legend band (its last row is 60), in the lanes of track 0 and
\* track 1, and below the last lane
HitXs == {10, 100}

HitYs == {60, 70, 130, 160}

\* new TimelineRenderer(canvas) for a null canvas, a canvas without a 2D
\* context, or a canvas with one
InitRenderer ==
  /\ viewport = InitialViewport
  /\ mouseState = InitialMouseState
  /\ clickedEvent = NoEvent
  /\ cl = [viewport |-> InitialViewport, mouseState |-> InitialMouseState]
  /\ pending = 0
  /\ rectLeft \in RectLefts
  /\ props = [tracks |-> Tracks, currentTime |-> Q(0), isPlaying |-> FALSE]
  /\ canvas = [width |-> 800, height |-> 600]
  /\ \E element \in BOOLEAN, context \in BOOLEAN :
        renderer = setCanvas(RendererFields, element, context)
  /\ before = DefaultCtx
  /\ ctx = DefaultCtx
  /\ pointer = 0
  /\ last = [NoOp EXCEPT !.op = "new"]
  /\ wheels = 0
  /\ session = InitialSession
  /\ listeners = InitialListeners

\* a setter: the renderer's fields become r, nothing is drawn
CallSetter(name, r) ==
  /\ renderer' = r
  /\ last' = [NoOp EXCEPT !.op = name]
  /\ UNCHANGED <<viewport, mouseState, clickedEvent, cl, pending, props, canvas,
                 ctx, before, pointer, wheels, rectLeft, session,
                 listeners>>

CallSetCanvas(element, context) ==
  CallSetter("setCanvas", setCanvas(renderer, element, context))

CallSetTracks(tracks) == CallSetter("setTracks", setTracks(renderer, tracks))

CallSetViewport(vp) == CallSetter("setViewport", setViewport(renderer, vp))

CallSetMouseState(ms) == CallSetter("setMouseState", setMouseState(renderer, ms))

CallSetOnEventClick == CallSetter("setOnEventClick", setOnEventClick(renderer))

CallSetCurrentTime(playback) ==
  CallSetter("setCurrentTime",
             setCurrentTime(renderer, playback.currentTime, playback.isPlaying))

CallHandleClick(x, y) ==
  /\ last' = [NoOp EXCEPT !.op = "handleClick", !.at = <<x, y>>,
                          !.delivered = handleClick(renderer, x, y)]
  /\ UNCHANGED <<viewport, mouseState, clickedEvent, cl, pending, props, renderer,
                 canvas, ctx, before, pointer, wheels, rectLeft, session,
                 listeners>>

CallDrawTimeline ==
  /\ Repaint(renderer, canvas, ctx)
  /\ last' = [NoOp EXCEPT !.op = "drawTimeline"]
  /\ UNCHANGED <<viewport, mouseState, clickedEvent, cl, pending, props, renderer,
                 canvas, pointer, wheels, rectLeft, session,
                 listeners>>

CallResizeCanvas ==
  /\ IF ~ renderer.hasCanvas THEN UNCHANGED <<ctx, before>>
     ELSE Repaint(renderer, canvas, ctx)
  /\ last' = [NoOp EXCEPT !.op = "resizeCanvas"]
  /\ UNCHANGED <<viewport, mouseState, clickedEvent, cl, pending, props, renderer,
                 canvas, pointer, wheels, rectLeft, session,
                 listeners>>

NextRenderer ==
  \/ \E element \in BOOLEAN, context \in BOOLEAN : CallSetCanvas(element, context)
  \/ \E tracks \in RendererTracks : CallSetTracks(tracks)
  \/ \E vp \in RendererViewports : CallSetViewport(vp)
  \/ \E ms \in RendererMouseStates : CallSetMouseState(ms)
  \/ CallSetOnEventClick
  \/ \E playback \in Playbacks : CallSetCurrentTime(playback)
  \/ \E x \in HitXs, y \in HitYs : CallHandleClick(x, y)
  \/ CallDrawTimeline
  \/ CallResizeCanvas

SpecRenderer == InitRenderer /\ [][NextRenderer]_vars

(***************************************************************************)
(* The profiling session that fills the tracks (app/test.tsx): the         *)
(* Start/Stop button, the commit hook that records renders, and the two    *)
(* PerformanceObserver callbacks that record user inputs and network       *)
(* resources.  An event id `${name}-${number}` is modelled as the pair     *)
(* <<name, number>>.                                                       *)
(***************************************************************************)
\* last value of the clock
MaxNow == 2

\* largest number of entries in one batch, and of events recorded between
\* a start and a stop
MaxBatch == 2

roundTime(time) == Div(Q(Round(Mul(time, Q(100)))), Q(100))

getRelativeTime(s, absoluteTime) ==
  IF s.baselineTimestampRef = {} THEN absoluteTime
  ELSE Sub(absoluteTime, Q(CHOOSE b \in s.baselineTimestampRef : TRUE))

\* addTimelineEvent(event) on the map held by eventTracksRef
addTimelineEvent(tracks, event) ==
  IF event.eventTrackId \notin DOMAIN tracks THEN tracks
  ELSE [tracks EXCEPT ![event.eventTrackId] = Append(@, event)]

TimelineEvent(id, label, startTime, endTime, duration, eventTrackId) ==
  [id |-> id, label |-> label, startTime |-> startTime, endTime |-> endTime,
   duration |-> duration, eventTrackId |-> eventTrackId]

\* one iteration of the forEach of the event-timing observer; entry.stamp
\* is what Date.now() returns in that iteration
addEventTiming(tracks, s, entry) ==
  LET relativeStartTime == getRelativeTime(s, entry.startTime)
  IN  IF Lt(relativeStartTime, Q(0)) THEN tracks
      ELSE addTimelineEvent(tracks,
             TimelineEvent(<<entry.name, Q(entry.stamp)>>, entry.name,
                           roundTime(relativeStartTime),
                           roundTime(Add(relativeStartTime, entry.duration)),
                           roundTime(entry.duration), "user-input"))

isResourceIncludedInWhiteList(entry) ==
  entry.initiatorType = "fetch" \/ entry.extension \in {".json", ".js", ".css", ".img"}

\* one iteration of the forEach of the resource-timing observer
addResourceTiming(tracks, s, entry, idx) ==
  LET relativeFetchStart  == getRelativeTime(s, entry.fetchStart)
      relativeResponseEnd == getRelativeTime(s, entry.responseEnd)
  IN  IF ~ isResourceIncludedInWhiteList(entry) THEN tracks
      ELSE IF Lt(relativeFetchStart, Q(0)) THEN tracks
      ELSE addTimelineEvent(tracks,
             TimelineEvent(<<entry.name, Q(idx)>>, entry.name,
                           roundTime(relativeFetchStart),
                           roundTime(relativeResponseEnd),
                           roundTime(Sub(relativeResponseEnd, relativeFetchStart)),
                           "network-resource"))

\* the callback of traverseRenderedFibers for one fiber
addRenderedFiber(tracks, s, fiber) ==
  LET startTime == getRelativeTime(s, fiber.actualStartTime)
  IN  IF fiber.actualStartTime = Q(0) THEN tracks
      ELSE IF Lt(startTime, Q(0)) \/ Lt(fiber.selfTime, Q(1)) THEN tracks
      ELSE addTimelineEvent(tracks,
             TimelineEvent(<<fiber.displayName, roundTime(startTime)>>,
                           fiber.displayName, roundTime(startTime),
                           roundTime(Add(startTime, fiber.selfTime)),
                           roundTime(fiber.selfTime), "render"))

\* list.getEntries().forEach(...) of the two observers, and the traversal
\* of the rendered fibers, from the i-th element on
RECURSIVE addEventTimings(_, _, _, _)
addEventTimings(tracks, s, entries, i) ==
  IF i > Len(entries) THEN tracks
  ELSE addEventTimings(addEventTiming(tracks, s, entries[i]), s, entries, i + 1)

RECURSIVE addResourceTimings(_, _, _, _)
addResourceTimings(tracks, s, entries, i) ==
  IF i > Len(entries) THEN tracks
  ELSE addResourceTimings(addResourceTiming(tracks, s, entries[i], i - 1), s,
                          entries, i + 1)

RECURSIVE addRenderedFibers(_, _, _, _)
addRenderedFibers(tracks, s, fibers, i) ==
  IF i > Len(fibers) THEN tracks
  ELSE addRenderedFibers(addRenderedFiber(tracks, s, fibers[i]), s, fibers, i + 1)

\* the non-empty lists of at most MaxBatch elements of S
BatchesOf(S) == UNION {[1..n -> S] : n \in 1..MaxBatch}

\* PerformanceEventTiming entries delivered in state s; stamp is the value
\* of Date.now() when the callback reaches the entry
EventTimingEntries(s) ==
  [name : {"click", "keydown"}, startTime : {Q(0), Q(s.now)}, duration : {Q(16)},
   stamp : {t \in {s.now, s.now + 1} : t <= MaxNow}]

\* PerformanceResourceTiming entries delivered in state s: a fetch, and an
\* image that the white list rejects
ResourceTimingEntries(s) ==
  {[name |-> r.name, initiatorType |-> r.initiatorType, extension |-> r.extension,
    fetchStart |-> t, responseEnd |-> Add(t, Q(1))] :
     r \in {[name |-> "/api/data", initiatorType |-> "fetch", extension |-> ""],
            [name |-> "/logo.png", initiatorType |-> "img", extension |-> ".png"]},
     t \in {Q(0), Q(s.now)}}

\* the fibers rendered in a commit, in the order of the traversal; the
\* i-th of them started rendering i - 1 ms after the first
RenderedFibers == [displayName : {"Item"}, selfTime : {<<1, 2>>, Q(2)}]

\* the fibers as the commit hook sees them when the commit started at `now`
\* (a start time of 0 is what a fiber without timing carries)
fibersAt(fibers, now) ==
  [i \in 1..Len(fibers) |->
     [displayName |-> fibers[i].displayName, actualStartTime |-> Q(now + i - 1),
      selfTime |-> fibers[i].selfTime]]

\* the state of everything but the session
timelineVars ==
  <<viewport, mouseState, clickedEvent, cl, pending, props, renderer, canvas, ctx,
    before, pointer, last, wheels, rectLeft, listeners>>

\* the tracks hold at most MaxBatch events
WithinTrackBound(tracks) ==
  Len(tracks["network-resource"]) + Len(tracks["user-input"]) + Len(tracks["render"])
    <= MaxBatch

\* the button while not recording, followed by the render and its effects:
\* the baseline is taken, the commit hook is installed and the observers
\* start
StartProfiling ==
  /\ session.profilingSessionStatus # "pending"
  /\ session' = [session EXCEPT
                   !.eventTracks = initEventTracks,
                   !.eventTracksRef = initEventTracks,
                   !.profilingSessionStatus = "pending",
                   !.baselineTimestampRef =
                      IF @ = {} THEN {session.now} ELSE @,
                   !.instrumented = TRUE]
  /\ UNCHANGED timelineVars

\* the button while recording, followed by the render and its effects: the
\* recorded tracks become the displayed ones, the baseline is dropped and
\* the observers disconnect
StopProfiling ==
  /\ session.profilingSessionStatus = "pending"
  /\ session' = [session EXCEPT
                   !.eventTracks = session.eventTracksRef,
                   !.eventTracksRef = initEventTracks,
                   !.profilingSessionStatus = "stop",
                   !.baselineTimestampRef = {}]
  /\ UNCHANGED timelineVars

\* a millisecond passes
Tick ==
  /\ session.now < MaxNow
  /\ session' = [session EXCEPT !.now = @ + 1]
  /\ UNCHANGED timelineVars

\* the commit hook installed by instrument(), which is never removed; the
\* commit takes as many ms as it renders fibers
onCommitFiberRoot(fibers) ==
  /\ session.instrumented
  /\ session.now + Len(fibers) <= MaxNow
  /\ WithinTrackBound(addRenderedFibers(session.eventTracksRef, session,
                                         fibersAt(fibers, session.now), 1))
  /\ session' = [session EXCEPT
                   !.eventTracksRef =
                      addRenderedFibers(@, session, fibersAt(fibers, session.now), 1),
                   !.now = @ + Len(fibers)]
  /\ UNCHANGED timelineVars

\* the callback of the event-timing observer, connected while recording
observeEventTiming(entries) ==
  /\ session.profilingSessionStatus = "pending"
  /\ \A i \in 1..(Len(entries) - 1) : entries[i].stamp <= entries[i + 1].stamp
  /\ WithinTrackBound(addEventTimings(session.eventTracksRef, session, entries, 1))
  /\ session' = [session EXCEPT
                   !.eventTracksRef = addEventTimings(@, session, entries, 1),
                   !.now = entries[Len(entries)].stamp]
  /\ UNCHANGED timelineVars

\* the callback of the resource-timing observer, connected while recording
observeResourceTiming(entries) ==
  /\ session.profilingSessionStatus = "pending"
  /\ WithinTrackBound(addResourceTimings(session.eventTracksRef, session, entries, 1))
  /\ session' = [session EXCEPT
                   !.eventTracksRef = addResourceTimings(@, session, entries, 1)]
  /\ UNCHANGED timelineVars

NextSession ==
  \/ StartProfiling
  \/ StopProfiling
  \/ Tick
  \/ \E fibers \in BatchesOf(RenderedFibers) : onCommitFiberRoot(fibers)
  \/ \E entries \in BatchesOf(EventTimingEntries(session)) : observeEventTiming(entries)
  \/ \E entries \in BatchesOf(ResourceTimingEntries(session)) :
        observeResourceTiming(entries)

\* the page with the Timeline not yet interacted with
SpecSession == InitWide /\ [][NextSession]_vars
(***************************************************************************)
(* Properties of zooming, panning and resetting (SpecZoom).                *)
(***************************************************************************)
\* the cursor column of a wheel event at clientX
cursorXOf(clientX) == clientX - rectLeft

\* the offsetX handleWheel computes before clamping it, for the viewport
\* its closure holds
unclampedOffsetX(clientX, deltaY) ==
  zoomedOffsetX(cl.viewport, cursorXOf(clientX), zoomedScale(cl.viewport.scale, deltaY))

\* C1 as stated: after a wheel event at cursor column x, in either
\* direction, the new viewport maps x to the same time as the viewport the
\* handler read.
C1_ZoomAboutCursor ==
  [][\A x \in WheelXs, deltaY \in {-1, 1} :
       handleWheel(x + rectLeft, deltaY)
         => pixelToTime(Q(x), viewport') = pixelToTime(Q(x), cl.viewport)]_vars

\* C1 amended: after a wheel event at cursor column x, in either direction,
\* the new viewport maps x to the same time as the viewport the handler
\* read, provided the offset computed for the new scale is not negative
\* (it is then stored as computed, not clamped to 0).
C1_ZoomAboutCursorUnclamped ==
  [][\A x \in WheelXs, deltaY \in {-1, 1} :
       (handleWheel(x + rectLeft, deltaY)
          /\ Le(Q(0), unclampedOffsetX(x + rectLeft, deltaY)))
         => pixelToTime(Q(x), viewport') = pixelToTime(Q(x), cl.viewport)]_vars

\* a wheel event has changed the scale and stored a positive offset: the
\* offset was not clamped
C1_UnclampedZoomDone ==
  /\ last.op = "wheel"
  /\ pending = 1
  /\ viewport.scale # cl.viewport.scale
  /\ Lt(Q(0), viewport.offsetX)

\* C5: in every state reached by pointer-down, pointer-move, pointer-up,
\* pointer-leave, wheel and reset-view operations, viewport.offsetX >= 0.
C5_OffsetXNonNegative == Le(Q(0), viewport.offsetX)

\* a drag to the right from offsetX 0: the pan was clamped
C5_PanClamped ==
  /\ last.op = "mousemove"
  /\ pending = 1
  /\ cl.mouseState.isDragging
  /\ mouseState.lastX > cl.mouseState.lastX
  /\ cl.viewport.offsetX = Q(0)
  /\ viewport.offsetX = Q(0)

\* C8 as stated: after resetView the viewport equals the viewport the
\* component had when it was mounted.
C8_ResetRestoresMountViewport == [][resetView => viewport' = InitialViewport]_vars

\* C9: from every reachable state resetView yields offsetX = 0 and
\* scale = 1 and leaves the MouseState unchanged.
C9_ResetYieldsOrigin ==
  [][resetView => /\ viewport'.offsetX = Q(0)
                  /\ viewport'.scale = Q(1)
                  /\ mouseState' = mouseState]_vars

\* resetView has run in the middle of a drag, after a wheel event
C9_ResetDuringDrag ==
  /\ last.op = "resetView"
  /\ mouseState.isDragging
  /\ wheels > 0
  /\ viewport = ResetViewport

(***************************************************************************)
(* Properties of the scale range and of the coordinate transform           *)
(* (SpecScale).                                                            *)
(***************************************************************************)
\* C6: in every state reached by wheel, pan and reset-view operations,
\* MIN_SCALE <= viewport.scale <= MAX_SCALE.
C6_ScaleWithinBounds ==
  /\ Le(MIN_SCALE, viewport.scale)
  /\ Le(viewport.scale, MAX_SCALE)

\* a wheel event with deltaY < 0 at MAX_SCALE: the scale was clamped
C6_ZoomInClamped ==
  /\ last.op = "wheel"
  /\ pending = 1
  /\ cl.viewport.scale = MAX_SCALE
  /\ viewport.scale = MAX_SCALE

\* times (ms) and pixel columns the transform is applied to
SampleTimes == {-50, 0, 1, 100, 333}

SamplePixels == {0, 1, 11, 300, 800}

C2_NoClickAfterDrag ==
  [][\A x \in PointerXs, y \in TrackYs :
       (/\ handleMouseUp(x + rectLeft, y)
        /\ mouseState.isDragging
        /\ Abs((x + rectLeft) - pointer) >= CLICK_THRESHOLD)
         => ~ last'.click]_vars

(***************************************************************************)
(* Properties of repainting and hit-testing (SpecPaint).                   *)
(***************************************************************************)
\* C3 as stated: a repaint made with the same tracks, viewport, mouse
\* state, cursor time, playing flag and canvas size as the repaint before
\* it issues the same drawing operations with the same attributes.
\* (Every operation but the wheel, pointer-move and pointer-leave handlers
\* ends with drawTimeline().)
C3_RepaintIsPure ==
  [][(/\ last'.op \notin {"wheel", "mousemove", "mouseleave"}
      /\ renderer' = renderer
      /\ canvas' = canvas)
       => drawTimeline(renderer', canvas', before') = paintOps]_vars

\* the rows of the lane of track index i: its top, middle and bottom
LaneRows(i) == {trackY(i), trackY(i) + TRACK_HEIGHT \div 2, trackY(i) + TRACK_HEIGHT}

\* C4: for each track of the renderer that holds a single event and each
\* row y of its lane, findEventAtPosition(x, y) is the event for every
\* pixel x from timeToPixel(start) to timeToPixel(start + duration), ends
\* included, and null one pixel to the left and one pixel to the right.
C4_HitTestSingleEventTrack ==
  \A i \in 1..Len(renderer.tracks) :
    Len(renderer.tracks[i].events) = 1 =>
      LET e  == renderer.tracks[i].events[1]
          lo == timeToPixel(Q(e.startTime), renderer.viewport)
          hi == timeToPixel(Q(e.startTime + e.duration), renderer.viewport)
      IN  \A y \in LaneRows(i - 1) :
            /\ \A x \in {lo, hi} \cup {Q(n) : n \in Ceil(lo)..Floor(hi)} :
                 findEventAtPosition(renderer, x, Q(y)) = e
            /\ findEventAtPosition(renderer, Sub(lo, Q(1)), Q(y)) = NoEvent
            /\ findEventAtPosition(renderer, Add(hi, Q(1)), Q(y)) = NoEvent

\* hovering has found the event of the single-event track in a zoomed
\* viewport
C4_HoverHitAfterZoom ==
  /\ last.op = "render"
  /\ mouseState.isHovering
  /\ mouseState.hoverEvent = Tracks[1].events[1]
  /\ renderer.viewport.scale # InitialViewport.scale

\* the columns of the grid lines of the last repaint, in drawing order
gridLineColumns ==
  LET IsGridLine(op) == op.layer = "grid" /\ op.kind = "strokeLine"
      lines == SelectSeq(paintOps, IsGridLine)
  IN  [k \in 1..Len(lines) |-> lines[k].a[1]]

\* C10: in the last repaint no two ticks were drawn in the same pixel
\* column, and every tick column lies in [0, width].
C10_TickColumnsDistinct ==
  \A columns \in {gridLineColumns} :
    \A i, j \in 1..Len(columns) :
      /\ i # j => columns[i] # columns[j]
      /\ Le(Q(0), columns[i])
      /\ Le(columns[i], Q(canvas.width))

\* the tick loop of the last repaint visited two times that round to the
\* same column inside the canvas, and drew one tick there
C10_DuplicateColumnSkipped ==
  LET v  == renderer.viewport
      ti == timeIntervalOf(v, canvas.width)
      t0 == tickStartTime(v, canvas.width)
      n  == (tickEndTime(v, canvas.width) - t0) \div ti
      col(k) == Round(timeToPixel(Q(t0 + k * ti), v))
  IN  \E k1, k2 \in 0..n, columns \in {gridLineColumns} :
        /\ k1 < k2
        /\ col(k1) = col(k2)
        /\ col(k1) \in 0..canvas.width
        /\ Cardinality({k \in 1..Len(columns) : columns[k] = Q(col(k1))}) = 1


(***************************************************************************)
(* Properties of the renderer's public methods (SpecRenderer).             *)
(***************************************************************************)
\* C11: handleClick(x, y) invokes the registered callback exactly once,
\* with the event findEventAtPosition(x, y) returns, when that event is
\* not null and a callback is registered; otherwise it invokes nothing; in
\* both cases the renderer's tracks, viewport and mouse state stay as they
\* are.
C11_ClickInvokesCallbackOnce ==
  [][\A x \in HitXs, y \in HitYs :
       CallHandleClick(x, y) =>
         \A found \in {findEventAtPosition(renderer, Q(x), Q(y))} :
           /\ (found # NoEvent /\ renderer.onEventClick)
                => last'.delivered = << found >>
           /\ (found = NoEvent \/ ~ renderer.onEventClick)
                => last'.delivered = << >>
           /\ renderer'.tracks = renderer.tracks
           /\ renderer'.viewport = renderer.viewport
           /\ renderer'.mouseState = renderer.mouseState]_vars

\* handleClick has hit an event and invoked the registered callback
C11_CallbackInvoked ==
  /\ last.op = "handleClick"
  /\ renderer.onEventClick
  /\ Len(last.delivered) = 1
  /\ last.delivered[1] = findEventAtPosition(renderer, Q(last.at[1]), Q(last.at[2]))
  /\ last.delivered[1] # NoEvent


\* C13: with no canvas or no 2D context, drawTimeline() and resizeCanvas()
\* issue no drawing operation and leave the context attributes and the
\* renderer's fields (tracks, viewport, mouse state, cursor time) as they
\* are; the setters still store their arguments and hit-testing still
\* answers from the stored tracks and viewport.
C13_NoSurfaceNoDrawing ==
  [][/\ (CallDrawTimeline \/ CallResizeCanvas)
          /\ (~ renderer.hasCanvas \/ ~ renderer.hasCtx)
        => /\ drawTimeline(renderer, canvas, ctx) = << >>
           /\ ctx' = ctx
           /\ renderer' = renderer
     /\ \A tracks \in RendererTracks :
          CallSetTracks(tracks) => renderer'.tracks = tracks
     /\ \A vp \in RendererViewports :
          CallSetViewport(vp) => renderer'.viewport = vp
     /\ \A ms \in RendererMouseStates :
          CallSetMouseState(ms) => renderer'.mouseState = ms
     /\ \A playback \in Playbacks :
          CallSetCurrentTime(playback)
            => /\ renderer'.currentTime = playback.currentTime
               /\ renderer'.isPlaying = playback.isPlaying
     /\ \A x \in HitXs, y \in HitYs :
          findEventAtPosition(renderer, Q(x), Q(y))
            = findEventAtPosition(setCanvas(renderer, TRUE, TRUE), Q(x), Q(y))]_vars

\* resizeCanvas() was called on a renderer that has a canvas without a 2D
\* context, after tracks were stored in it
C13_ResizedWithoutContext ==
  /\ last.op = "resizeCanvas"
  /\ renderer.hasCanvas
  /\ ~ renderer.hasCtx
  /\ renderer.tracks # << >>
  /\ \E x \in HitXs, y \in HitYs : findEventAtPosition(renderer, Q(x), Q(y)) # NoEvent

\* rows passed to findEventAtPosition: above the canvas, in the band (its
\* last row is 60), in the lanes of track 0 and track 1, and below them
SampleRows == {-5, 0, 30, 59, 60, 61, 70, 109, 110, 130, 159, 160, 1000}

\* C14: findEventAtPosition(x, y) returns null for every y in the
\* ruler/legend band (y <= TIME_MARKERS_HEIGHT + LEGEND_HEIGHT) and for
\* every y whose track index is negative or not less than the number of
\* tracks, also when there are no tracks.
C14_OutOfRangeRowsMiss ==
  \A x \in HitXs, y \in SampleRows :
    (\/ y <= TIME_MARKERS_HEIGHT + LEGEND_HEIGHT
     \/ trackIndexAt(Q(y)) < 0
     \/ trackIndexAt(Q(y)) >= Len(renderer.tracks))
      => findEventAtPosition(renderer, Q(x), Q(y)) = NoEvent

\* the renderer holds tracks and a column hits an event in a lane, while
\* the same column misses on the last row of the band and below the lanes
C14_BandRowMissesWhereLaneHits ==
  /\ Len(renderer.tracks) = 2
  /\ \E x \in HitXs :
       /\ findEventAtPosition(renderer, Q(x), Q(61)) # NoEvent
       /\ findEventAtPosition(renderer, Q(x), Q(60)) = NoEvent
       /\ findEventAtPosition(renderer, Q(x), Q(159)) # NoEvent
       /\ findEventAtPosition(renderer, Q(x), Q(160)) = NoEvent

\* the indices of the events of a track that contain the time
containingIndices(track, time) ==
  {k \in 1..Len(track.events) : eventContains(track.events[k], time)}

\* C15: when events of the hit track contain pixelToTime(x),
\* findEventAtPosition returns the one with the smallest index in the
\* track's events array; what it returns is never an event of another
\* track nor an event whose interval does not contain pixelToTime(x).
C15_FirstContainingEventWins ==
  \A x \in HitXs, y \in SampleRows :
    \A found \in {findEventAtPosition(renderer, Q(x), Q(y))} :
      /\ found # NoEvent =>
            /\ y > TIME_MARKERS_HEIGHT + LEGEND_HEIGHT
            /\ trackIndexAt(Q(y)) \in 0..(Len(renderer.tracks) - 1)
      /\ (/\ y > TIME_MARKERS_HEIGHT + LEGEND_HEIGHT
           /\ trackIndexAt(Q(y)) \in 0..(Len(renderer.tracks) - 1)) =>
            \A track \in {renderer.tracks[trackIndexAt(Q(y)) + 1]} :
              \A hits \in {containingIndices(track, pixelToTime(Q(x), renderer.viewport))} :
                /\ hits = {} => found = NoEvent
                /\ hits # {} =>
                      \E k \in hits : /\ found = track.events[k]
                                      /\ \A j \in hits : k <= j

\* two events of the hit track contain the time under the column and the
\* hit test returns the first of them
C15_OverlappingEventsHit ==
  /\ Len(renderer.tracks) = 2
  /\ \E x \in HitXs :
       /\ containingIndices(renderer.tracks[2], pixelToTime(Q(x), renderer.viewport))
            = {1, 2}
       /\ findEventAtPosition(renderer, Q(x), Q(130)) = renderer.tracks[2].events[1]

(***************************************************************************)
(* Properties of the pointer handlers (SpecClick).                         *)
(***************************************************************************)
\* C12: whatever the state (idle, dragging, hovering, or both), after the
\* pointer-leave handler isDragging and isHovering are false, hoverEvent is
\* null, and the viewport is the one before the handler.
C12_LeaveResetsPointerState ==
  [][handleMouseLeave =>
       /\ mouseState'.isDragging = FALSE
       /\ mouseState'.isHovering = FALSE
       /\ mouseState'.hoverEvent = NoEvent
       /\ viewport' = viewport]_vars

\* the pointer has left while the component was rendered dragging and
\* hovering over an event
C12_LeftWhileDraggingAndHovering ==
  /\ last.op = "mouseleave"
  /\ cl.mouseState.isDragging
  /\ cl.mouseState.isHovering
  /\ cl.mouseState.hoverEvent # NoEvent
  /\ ~ mouseState.isDragging
  /\ ~ mouseState.isHovering
  /\ mouseState.hoverEvent = NoEvent


(***************************************************************************)
(* Properties of the profiling session (SpecSession).                      *)
(***************************************************************************)
\* no two events of the list have the same id
UniqueIds(events) ==
  \A i \in 1..Len(events), j \in 1..Len(events) : i # j => events[i].id # events[j].id

\* C16: in every state of a profiling session (start, entries ingested in
\* any batches, stop, start again), no two events held by the same track,
\* recorded or displayed, have the same id.
C16_EventIdsUniquePerTrack ==
  \A id \in DOMAIN initEventTracks :
    /\ UniqueIds(session.eventTracksRef[id])
    /\ UniqueIds(session.eventTracks[id])


(***************************************************************************)
(* Properties of the time cursor (SpecCursor).                             *)
(***************************************************************************)
\* the operations of the time-cursor layer in the last repaint
cursorOps == SelectSeq(paintOps, LAMBDA op : op.layer = "cursor")

\* C17: the time cursor is drawn in a repaint exactly when currentTime >= 0
\* and 0 <= timeToPixel(currentTime) <= canvas width; its line, dot and
\* label are then at x = timeToPixel(currentTime), and line and dot have
\* the playing colour exactly when isPlaying is true; the renderer holds
\* the currentTime and isPlaying the parent passed, and they change only
\* when the parent passes new ones.
C17_CursorDrawnWhereTimeIs ==
  /\ [](\A ops \in {cursorOps} :
         \A x \in {timeToPixel(renderer.currentTime, renderer.viewport)} :
           /\ ops # << >> <=> /\ Le(Q(0), renderer.currentTime)
                              /\ Le(Q(0), x)
                              /\ Le(x, Q(canvas.width))
           /\ ops # << >> =>
                 /\ \E i \in 1..Len(ops) : ops[i].kind = "strokeLine"
                 /\ \A i \in 1..Len(ops) :
                      /\ ops[i].kind = "strokeLine" =>
                            /\ ops[i].a[1] = x /\ ops[i].a[3] = x
                            /\ ops[i].stroke = "#ff3333" <=> renderer.isPlaying
                            /\ ops[i].stroke = "#ff8844" <=> ~ renderer.isPlaying
                      /\ ops[i].kind = "fillArc" =>
                            /\ ops[i].a[1] = x
                            /\ ops[i].fill = "#ff3333" <=> renderer.isPlaying
                            /\ ops[i].fill = "#ff8844" <=> ~ renderer.isPlaying
                      /\ ops[i].kind = "fillText" => ops[i].a[1] = x
           /\ renderer.currentTime = props.currentTime
           /\ renderer.isPlaying = props.isPlaying)
  /\ [][(props'.currentTime # props.currentTime \/ props'.isPlaying # props.isPlaying)
          => \E playback \in CursorPlaybacks : ParentRender(playback)]_vars

\* the cursor is drawn in the playing colour on a zoomed viewport
C17_PlayingCursorDrawn ==
  /\ renderer.isPlaying
  /\ renderer.viewport.scale # InitialViewport.scale
  /\ cursorOps # << >>
  /\ \E i \in 1..Len(cursorOps) : cursorOps[i].stroke = "#ff3333"


(***************************************************************************)
(* Frame of the viewport (SpecFrame).                                      *)
(***************************************************************************)
\* C18: the viewport changes only in the wheel handler, in the
\* pointer-move handler when it sees isDragging true, and in resetView;
\* pointer-down, pointer-up with its click dispatch, pointer-move seeing
\* isDragging false, pointer-leave, a render, and new tracks, currentTime
\* and isPlaying passed by the parent leave offsetX, scale, startTime and
\* endTime as they are.
C18_ViewportFrame ==
  [][/\ viewport' # viewport =>
          \/ last'.op \in {"wheel", "resetView"}
          \/ last'.op = "mousemove" /\ cl.mouseState.isDragging
     /\ (\/ last'.op \in {"mousedown", "mouseup", "mouseleave", "render", "props"}
         \/ last'.op = "mousemove" /\ ~ cl.mouseState.isDragging)
          => /\ viewport'.offsetX = viewport.offsetX
             /\ viewport'.scale = viewport.scale
             /\ viewport'.startTime = viewport.startTime
             /\ viewport'.endTime = viewport.endTime]_vars

\* the parent has passed new tracks and a new playback cursor to a Timeline
\* that was zoomed, and the viewport is still the zoomed one
C18_PropsPassedWhileZoomed ==
  /\ last.op = "props"
  /\ props.tracks # Tracks
  /\ viewport.scale # InitialViewport.scale
  /\ viewport.offsetX # Q(0)
  /\ renderer.viewport = viewport


(***************************************************************************)
(* Order of the layers of a repaint (SpecPaint).                           *)
(***************************************************************************)
LayerOrder ==
  <<"background", "grid", "legend", "tracks", "events", "cursor", "tooltip">>

layerRank(layer) == CHOOSE i \in 1..Len(LayerOrder) : LayerOrder[i] = layer

layersOf(ops) == {ops[i].layer : i \in 1..Len(ops)}

\* C19: every repaint issues its layers in the order background, time grid
\* and ticks, legend, track lanes, events, time cursor, tooltip: no operation
\* of an earlier layer follows one of a later layer, and tooltip operations
\* are issued only when isHovering is true and hoverEvent is not null.
C19_LayersInFixedOrder ==
  \A ops \in {paintOps} :
    /\ layersOf(ops) \subseteq {LayerOrder[i] : i \in 1..Len(LayerOrder)}
    /\ \A i \in 1..Len(ops) : \A j \in i..Len(ops) :
         layerRank(ops[i].layer) <= layerRank(ops[j].layer)
    /\ "tooltip" \in layersOf(ops) =>
         /\ renderer.mouseState.isHovering
         /\ renderer.mouseState.hoverEvent # NoEvent

\* a repaint that issues all seven layers
C19_AllLayersPainted ==
  /\ renderer.mouseState.isHovering
  /\ layersOf(paintOps) = {LayerOrder[i] : i \in 1..Len(LayerOrder)}

(***************************************************************************)
(* Vertical layout of drawing and of hit-testing (SpecRenderer).           *)
(***************************************************************************)
LayoutRows == 0..(TIME_MARKERS_HEIGHT + 36 + 3 * (TRACK_HEIGHT + TRACK_PADDING))

\* the first row that findEventAtPosition maps to track index i
hitBandTop(i) ==
  CHOOSE y \in LayoutRows :
    /\ trackIndexAt(Q(y)) = i
    /\ \A z \in LayoutRows : trackIndexAt(Q(z)) = i => y <= z

\* C20: drawing and hit-testing use one vertical layout: for every track
\* index i the lane top trackY(i) of drawTracks and drawEvents is the top of
\* the band of rows that findEventAtPosition maps to track index i.
C20_OneVerticalLayout ==
  \A i \in 0..(Len(renderer.tracks) - 1) :
    /\ trackY(i) = hitBandTop(i)
    /\ \A y \in LayoutRows : \A x \in HitXs :
         (\E k \in 1..Len(renderer.tracks[i + 1].events) :
            findEventAtPosition(renderer, Q(x), Q(y)) = renderer.tracks[i + 1].events[k])
           => trackY(i) <= y /\ y < trackY(i + 1)

(***************************************************************************)
(* Number of tick markers of the time grid (SpecGrid).                     *)
(***************************************************************************)
\* viewports the wheel, pan and reset handlers lead to: the scale at mount,
\* after a reset, one wheel step from a reset, and at and near MAX_SCALE
GridScales == {<<1, 10>>, Q(1), <<11, 10>>, Q(25), Q(90), <<99, 1>>, MAX_SCALE}

GridOffsets == {Q(0), <<1, 2>>, Q(11), Q(1000)}

GridViewports ==
  {[offsetX |-> o, scale |-> s, startTime |-> 0, endTime |-> 800] :
     s \in GridScales, o \in GridOffsets}

GridSizes ==
  {[width |-> w, height |-> 600] : w \in {1, 300, 800, 1920}}

InitGrid == \E vp \in GridViewports : Mounted(vp)

\* resizes, zooming and renders from any of the viewports
NextGrid ==
  \/ \E size \in GridSizes : handleResize(size)
  \/ \E x \in WheelXs, deltaY \in {-1, 1} : handleWheel(x + rectLeft, deltaY)
  \/ Render

SpecGrid == InitGrid /\ [][NextGrid]_vars

\* the time the canvas shows, in ms: pixelToTime(width) - pixelToTime(0)
shownTimeRange == Div(Q(canvas.width), renderer.viewport.scale)

C22_DragMovePans ==
  [][\A x \in PointerXs, y \in TrackYs :
       (handleMouseMove(x + rectLeft, y) /\ cl.mouseState.isDragging) =>
         /\ viewport'.offsetX =
              Max(Q(0), Sub(viewport.offsetX, Q((x + rectLeft) - cl.mouseState.lastX)))
         /\ mouseState'.lastX = x + rectLeft
         /\ viewport'.scale = viewport.scale
         /\ viewport'.startTime = viewport.startTime
         /\ viewport'.endTime = viewport.endTime
         /\ mouseState'.isDragging = mouseState.isDragging
         /\ mouseState'.isHovering = mouseState.isHovering
         /\ mouseState'.hoverEvent = mouseState.hoverEvent
         /\ mouseState'.hoverPosition = mouseState.hoverPosition]_vars

\* a drag step has panned back from offsetX 11 to 0 and left the pointer
\* over an event, which the hover state does not hold
C22_DraggedOverEvent ==
  /\ last.op = "mousemove"
  /\ cl.mouseState.isDragging
  /\ mouseState.isDragging
  /\ cl.viewport.offsetX = Q(11)
  /\ viewport.offsetX = Q(0)
  /\ findEventAtPosition(setViewport(renderer, viewport),
                         Q(mouseState.lastX - rectLeft), Q(70)) # NoEvent
  /\ mouseState.hoverEvent = NoEvent

(***************************************************************************)
(* Rectangles of the events (SpecGrid).                                    *)
(***************************************************************************)
\* the rounded rectangles of the events layer of the last repaint
eventRects ==
  SelectSeq(paintOps,
            LAMBDA op : op.layer = "events" /\ op.kind = "fillRoundedRect")

\* round(timeToPixel(time)) in the renderer's viewport
roundedPixel(time) == Round(timeToPixel(Q(time), renderer.viewport))

\* max(1, round(timeToPixel(startTime + duration)) - round(timeToPixel(startTime)))
rectWidth(event) ==
  LET w == roundedPixel(event.startTime + event.duration) - roundedPixel(event.startTime)
  IN  IF w < 1 THEN 1 ELSE w

\* C23: the rectangle drawn for an event starts at round(timeToPixel(
\* startTime)) and is max(1, round(timeToPixel(startTime + duration)) -
\* round(timeToPixel(startTime))) >= 1 wide; an event gets no rectangle only
\* when that rectangle lies left of pixel 0 or right of the canvas width;
\* {startTime: 100, duration: 20} at scale 1, offsetX 0, startTime 0 is drawn
\* from pixel 100 with width 20.
C23_EventRectangles ==
  \A rects \in {eventRects} :
    /\ \A k \in 1..Len(rects) :
         /\ Le(Q(1), rects[k].a[3])
         /\ \E i \in 1..Len(renderer.tracks) :
              \E j \in 1..Len(renderer.tracks[i].events) :
                /\ rects[k].a[1] = Q(roundedPixel(renderer.tracks[i].events[j].startTime))
                /\ rects[k].a[3] = Q(rectWidth(renderer.tracks[i].events[j]))
                /\ rects[k].a[2] = Q(trackY(i - 1) + 4)
    /\ \A i \in 1..Len(renderer.tracks) :
         \A j \in 1..Len(renderer.tracks[i].events) :
           \A event \in {renderer.tracks[i].events[j]} :
             \/ \E k \in 1..Len(rects) :
                  /\ rects[k].a[1] = Q(roundedPixel(event.startTime))
                  /\ rects[k].a[2] = Q(trackY(i - 1) + 4)
                  /\ rects[k].a[3] = Q(rectWidth(event))
             \/ roundedPixel(event.startTime) + rectWidth(event) <= 0
             \/ roundedPixel(event.startTime) >= canvas.width
    /\ (renderer.viewport = ResetViewport /\ canvas.width >= 100) =>
         \E k \in 1..Len(rects) :
           rects[k].a[1] = Q(100) /\ rects[k].a[3] = Q(20)

\* at scale 1 and offsetX 0 on a canvas 800 pixels wide the event 100..120
\* is drawn from pixel 100 with width 20 and the event of duration 0 with
\* width 1
C23_ScenarioDrawn ==
  /\ renderer.viewport = ResetViewport
  /\ canvas.width = 800
  /\ \E k1, k2 \in 1..Len(eventRects) :
       /\ eventRects[k1].a[1] = Q(100) /\ eventRects[k1].a[3] = Q(20)
       /\ eventRects[k2].a[3] = Q(1)

(***************************************************************************)
(* Mounting and unmounting: the listeners of the Timeline (SpecMount).     *)
(***************************************************************************)
\* React unmounts the Timeline: the cleanups of the resize effect and of
\* the wheel effect each remove the listener their effect registered
Unmount ==
  /\ listeners.mounted
  /\ listeners' = [mounted |-> FALSE, resize |-> listeners.resize - 1,
                   wheel |-> listeners.wheel - 1]
  /\ last' = [NoOp EXCEPT !.op = "unmount"]
  /\ UNCHANGED <<viewport, mouseState, clickedEvent, cl, pending, props, renderer,
                 canvas, ctx, before, pointer, wheels, rectLeft, session>>

\* an event for which no handler runs
NotHandled(name) ==
  /\ last' = [NoOp EXCEPT !.op = name]
  /\ UNCHANGED <<viewport, mouseState, clickedEvent, cl, pending, props, renderer,
                 canvas, ctx, before, pointer, wheels, rectLeft, session, listeners>>

\* the window is resized: the registered handleResize runs, if any
windowResize(size) ==
  IF listeners.resize > 0 THEN handleResize(size) ELSE NotHandled("resize")

\* the wheel is turned over the canvas: the registered handleWheel runs,
\* if any
canvasWheel(clientX, deltaY) ==
  IF listeners.wheel > 0 THEN handleWheel(clientX, deltaY) ELSE NotHandled("wheel")

NextMount ==
  \/ \E size \in ContainerSizes : windowResize(size)
  \/ \E x \in WheelXs, deltaY \in {-1, 1} : canvasWheel(x + rectLeft, deltaY)
  \/ listeners.mounted /\ \E x \in PointerXs : handleMouseDown(x + rectLeft)
  \/ listeners.mounted /\ Render
  \/ Unmount

SpecMount == Init /\ [][NextMount]_vars

\* C24: after the unmount no resize or wheel listener of the Timeline is
\* registered, and a resize or wheel event delivered then leaves the
\* renderer, the canvas, its context and the viewport as they were; while
\* mounted at most one wheel listener is registered on the canvas.
C24_ListenersRemovedOnUnmount ==
  /\ [](listeners.mounted => listeners.wheel <= 1 /\ listeners.resize <= 1)
  /\ [](~ listeners.mounted => listeners.wheel = 0 /\ listeners.resize = 0)
  /\ [][~ listeners.mounted =>
          UNCHANGED <<viewport, renderer, canvas, ctx, before, cl>>]_vars

\* a wheel event delivered after the unmount of a Timeline whose wheel
\* effect had run again for a zoomed viewport
C24_WheelAfterUnmount ==
  /\ ~ listeners.mounted
  /\ last.op = "wheel"
  /\ cl.viewport # InitialViewport

(***************************************************************************)
(* The parent passes another onEventClick function (SpecRemount).          *)
(***************************************************************************)
\* The parent renders the Timeline with a new onEventClick function and the
\* tracks array, currentTime and isPlaying it passed before.  The init
\* effect (deps [onEventClick]) replaces the renderer by a new instance;
\* the update effect runs, and pushes state and props into it, only when
\* one of tracks, viewport, mouseState, currentTime, isPlaying has changed,
\* that is when a state update was queued.
ParentCallback ==
  /\ last' = [NoOp EXCEPT !.op = "callback"]
  /\ IF pending > 0
     THEN Commit(viewport, mouseState, props)
     ELSE /\ renderer' = NewRenderer
          /\ UNCHANGED <<cl, pending, ctx, before, listeners>>
  /\ UNCHANGED <<viewport, mouseState, clickedEvent, props, canvas, pointer,
                 wheels, rectLeft, session>>

NextRemount ==
  \/ \E x \in PointerXs : handleMouseDown(x + rectLeft)
  \/ \E x \in PointerXs, y \in TrackYs : handleMouseUp(x + rectLeft, y)
  \/ \E x \in PointerXs, y \in TrackYs : handleMouseMove(x + rectLeft, y)
  \/ handleMouseLeave
  \/ Render
  \/ ParentCallback

SpecRemount == InitWide /\ [][NextRemount]_vars

\* C25: whenever a pointer-move handler calls findEventAtPosition or a
\* pointer-up handler calls handleClick, the renderer holds the viewport
\* the component was rendered with and the tracks prop.
C25_RendererInSyncWhenHitTesting ==
  [][(\/ last'.op = "mousemove" /\ ~ cl.mouseState.isDragging
      \/ last'.op = "mouseup" /\ last'.click)
       => /\ renderer.viewport = cl.viewport
          /\ renderer.tracks = props.tracks]_vars

(***************************************************************************)
(* Position of the tooltip card (SpecTooltip).                             *)
(***************************************************************************)
\* containers 300 and 800 pixels wide
TooltipSizes == {[width |-> w, height |-> 600] : w \in {300, 800}}

\* pointer positions inside both canvases, in the lanes of both tracks
TooltipXs == {11, 110, 150}

TooltipYs == {70, 130}

\* hovering at both zoom levels of mount and reset, in both containers
NextTooltip ==
  \/ \E size \in TooltipSizes : handleResize(size)
  \/ \E x \in TooltipXs, y \in TooltipYs : handleMouseMove(x + rectLeft, y)
  \/ handleMouseLeave
  \/ resetView
  \/ Render

SpecTooltip == InitWide /\ [][NextTooltip]_vars

\* the background rectangles of the tooltip layer of the last repaint
tooltipCards ==
  SelectSeq(paintOps,
            LAMBDA op : op.layer = "tooltip" /\ op.kind = "fillRoundedRect")

\* C26: when the hover position lies inside the canvas, the tooltip card of
\* the hovered event (200 x 90, at position + 10, flipped left and/or up)
\* lies within [0, width] x [0, height].
C26_TooltipWithinCanvas ==
  \A cards \in {tooltipCards} :
    (/\ renderer.mouseState.hoverPosition.x <= canvas.width
     /\ renderer.mouseState.hoverPosition.y <= canvas.height)
      => \A k \in 1..Len(cards) :
           /\ Le(Q(0), cards[k].a[1])
           /\ Le(Add(cards[k].a[1], cards[k].a[3]), Q(canvas.width))
           /\ Le(Q(0), cards[k].a[2])
           /\ Le(Add(cards[k].a[2], cards[k].a[4]), Q(canvas.height))

(***************************************************************************)
(* Drawn rectangles against hit-testing (SpecHit, SpecRenderer).           *)
(***************************************************************************)
\* cursor columns of the wheel events
HitWheelXs == {6, 11}

\* columns around the left edge of the event 100..120 ms at the scale of
\* the mount
HoverXs == {10, 11}

\* zooming about two columns and hovering, on a canvas 800 pixels wide
NextHit ==
  \/ \E x \in HitWheelXs, deltaY \in {-1, 1} : handleWheel(x + rectLeft, deltaY)
  \/ \E x \in HoverXs, y \in TrackYs : handleMouseMove(x + rectLeft, y)
  \/ handleMouseLeave
  \/ resetView
  \/ Render

SpecHit == InitWide /\ [][NextHit]_vars

\* the event shares a time with an earlier event of the list
overlappedByEarlier(events, j) ==
  \E k \in 1..(j - 1) :
    /\ events[k].startTime <= events[j].startTime + events[j].duration
    /\ events[j].startTime <= events[k].startTime + events[k].duration

\* the columns of the rectangle of the event that lie on the canvas
rectColumns(event) ==
  {x \in roundedPixel(event.startTime)
           ..(roundedPixel(event.startTime) + rectWidth(event) - 1) :
     0 <= x /\ x <= canvas.width}

\* first and last row of the rectangle of an event of track index i
rectRows(i) == {trackY(i) + 4, trackY(i) + TRACK_HEIGHT - 4}

\* C27: every pixel of the canvas inside the rectangle drawn for an event
\* that no earlier event of its track overlaps makes findEventAtPosition
\* return that event.
C27_DrawnEventsAreHit ==
  \A i \in 1..Len(renderer.tracks) :
    \A j \in 1..Len(renderer.tracks[i].events) :
      \A event \in {renderer.tracks[i].events[j]} :
        (/\ eventIsDrawn(event, renderer.viewport, canvas.width)
         /\ ~ overlappedByEarlier(renderer.tracks[i].events, j))
          => \A x \in rectColumns(event), y \in rectRows(i - 1) :
               findEventAtPosition(renderer, Q(x), Q(y)) = event


\* C28: whenever findEventAtPosition(x, y) returns an event for a pixel of
\* the canvas, the pixel lies inside the rectangle the renderer draws for
\* that event: within its columns and within rows trackY + 4 ..
\* trackY + TRACK_HEIGHT - 4 of its lane.
C28_HitsOnlyWhereDrawn ==
  (renderer.hasCanvas /\ renderer.hasCtx) =>
    \A x \in HitXs, y \in {row \in SampleRows : 0 <= row /\ row <= canvas.height} :
      \A event \in {findEventAtPosition(renderer, Q(x), Q(y))} :
        event # NoEvent =>
          \E i \in 1..Len(renderer.tracks) :
            /\ \E j \in 1..Len(renderer.tracks[i].events) :
                 renderer.tracks[i].events[j] = event
            /\ x \in rectColumns(event)
            /\ trackY(i - 1) + 4 <= y
            /\ y <= trackY(i - 1) + TRACK_HEIGHT - 4

(***************************************************************************)
(* Wheel events handled before the component re-renders (SpecBurst).       *)
(***************************************************************************)
\* a wheel event of a burst: it may be handled while the state update of
\* an earlier wheel or pointer-move event has not been rendered
wheelInBurst(clientX, deltaY) ==
  /\ wheels < MaxBurst
  /\ pending < MaxBurst
  /\ wheelEvent(clientX, deltaY)

NextBurst ==
  \/ \E x \in WheelXs, deltaY \in {-1, 1} : wheelInBurst(x + rectLeft, deltaY)
  \/ \E x \in PointerXs : handleMouseDown(x + rectLeft)
  \/ \E x \in PointerXs, y \in RulerYs : handleMouseMove(x + rectLeft, y)
  \/ Render

SpecBurst == InitWide /\ [][NextBurst]_vars

\* C29: a wheel event is applied to the viewport that the events before it
\* have produced, whether or not the component has re-rendered since: the
\* new viewport is the one the handler computes from the current viewport
\* state (scale clamp(scale * factor), offset anchored at the cursor).
C29_WheelAppliedToCurrentViewport ==
  [][\A x \in WheelXs, deltaY \in {-1, 1} :
       wheelInBurst(x + rectLeft, deltaY)
         => viewport' = wheelViewport(viewport, viewport, x, deltaY)]_vars

(***************************************************************************)
(* Hover state (SpecHover).                                                *)
(***************************************************************************)
\* all pointer, wheel and reset operations with the pointer in the lane of
\* track 0, the wheel turned and the button pressed and released at
\* column 11, while the parent passes other tracks
NextHover ==
  \/ \E deltaY \in {-1, 1} : handleWheel(11 + rectLeft, deltaY)
  \/ handleMouseDown(11 + rectLeft)
  \/ \E y \in TrackYs : handleMouseUp(11 + rectLeft, y)
  \/ \E x \in PointerXs, y \in TrackYs : handleMouseMove(x + rectLeft, y)
  \/ handleMouseLeave
  \/ resetView
  \/ Render
  \/ \E newProps \in PropsPassed : ParentProps(newProps)

SpecHover == InitWide /\ [][NextHover]_vars

\* the events of all tracks of the list
eventsOf(tracks) ==
  {tracks[i].events[j] : <<i, j>> \in
     {p \in (1..Len(tracks)) \X (1..3) : p[2] <= Len(tracks[p[1]].events)}}

\* C30: in every reachable MouseState isHovering is true exactly when
\* hoverEvent is not null, and a hoverEvent that an operation sets is an
\* event of the tracks current at that operation.
C30_HoveringIffHoverEvent ==
  /\ [](mouseState.isHovering <=> mouseState.hoverEvent # NoEvent)
  /\ [][(mouseState'.hoverEvent # mouseState.hoverEvent
          /\ mouseState'.hoverEvent # NoEvent)
          => /\ last'.op = "mousemove"
             /\ mouseState'.hoverEvent \in eventsOf(props.tracks)]_vars

\* the pointer hovers over an event after a zoom, the button pressed and
\* released and other tracks passed
C30_HoveringAfterZoomAndProps ==
  /\ mouseState.isHovering
  /\ mouseState.hoverEvent # NoEvent
  /\ wheels > 0
  /\ props.tracks # Tracks
  /\ last.op = "mousemove"

=============================================================================
